---- MODULE Spec2Model ----
(***************************************************************************)
(* A model of the multi-session gateway of serena:                         *)
(*   - util/instance_registry.py : the file-locked cross-process registry  *)
(*   - session.py                : Session and SessionManager              *)
(*   - central_server.py         : CentralizedSerenaServer tool dispatch   *)
(* Python's None is modelled by NoneStr (strings), NoneNum (numbers) and   *)
(* NoneModes (lists).  The wall clock is counted in seconds; an operation  *)
(* reads it once (every time.time() call of one in-memory computation      *)
(* gives the same second), some seconds after the previous reading.  In    *)
(* the specification of the SessionManager the clock advances by steps of  *)
(* its own, between the calls and the iterations of the cleanup thread.    *)
(***************************************************************************)
EXTENDS Integers, Sequences, FiniteSets, TLC

VARIABLES
    now,          \* the latest reading of time.time(), in seconds
    \* ---- instance registry (one registry directory, several processes)
    file,         \* instances.json
    tmpfile,      \* instances.tmp
    lockHolder,   \* the process holding instances.lock
    rpc,          \* each process's position inside its registry operation
    rloc,         \* each process's locals: operation, loaded and mutated data, result
    opsStarted,   \* operations begun so far (bounds the model)
    serial,       \* history: the document a serial run of the operations gives
    hist,         \* history: the operation completed last
    \* ---- sessions (one server process, several threads)
    sess,         \* the Session objects, by session id
    sessions,     \* SessionManager._sessions: the registered ids, in insertion order
    mgrLock,      \* the thread holding SessionManager._lock
    thr,          \* each thread's position inside its call, and its locals
    reaper,       \* the SessionCleanup thread: position, locals, end of its wait
    srv,          \* CentralizedSerenaServer: agents, statistics, lifecycle events
    sessOps,      \* calls begun so far (bounds the model)
    sessHist,     \* history: what the calls observed and did
    \* ---- the stdio bridge and the fleet dashboard (one process each)
    bridge,       \* SerenaMCPProxy: position, session id, messages written, requests sent
    dash          \* the fleet dashboard: its checker threads and what they did

regVars == <<file, tmpfile, lockHolder, rpc, rloc, opsStarted, serial, hist>>
sessVars == <<sess, sessions, mgrLock, thr, reaper, srv, sessOps, sessHist>>
vars == <<now, file, tmpfile, lockHolder, rpc, rloc, opsStarted, serial, hist,
          sess, sessions, mgrLock, thr, reaper, srv, sessOps, sessHist, bridge, dash>>

(***************************************************************************)
(* Bounds of the model                                                     *)
(***************************************************************************)
MaxRegOps == 2

(***************************************************************************)
(* Python values                                                           *)
(***************************************************************************)
NoneStr == "<None>"
NoneNum == -1
NoneModes == <<"<None>">>

\* Python truthiness of an Optional[str] and of an Optional[float]
TruthyStr(s) == s # NoneStr /\ s # ""
TruthyNum(x) == x # NoneNum /\ x # 0

\* `modes or []`
ModesOrEmpty(modes) == IF modes = NoneModes \/ modes = <<>> THEN <<>> ELSE modes

(***************************************************************************)
(* instance_registry.py : constants and enums                              *)
(***************************************************************************)
ZOMBIE_TIMEOUT_SECONDS == 300
MAX_LIFECYCLE_EVENTS == 1000

LIVE_NO_PROJECT == "live_no_project"
LIVE_WITH_PROJECT == "live_with_project"
ZOMBIE == "zombie"

INSTANCE_STARTED == "instance_started"
INSTANCE_STOPPED == "instance_stopped"
PROJECT_ACTIVATED == "project_activated"
PROJECT_DEACTIVATED == "project_deactivated"
ZOMBIE_DETECTED == "zombie_detected"
ZOMBIE_PRUNED == "zombie_pruned"
ZOMBIE_FORCE_KILLED == "zombie_force_killed"
HEARTBEAT_RESTORED == "heartbeat_restored"

(***************************************************************************)
(* Inputs of the registry operations                                       *)
(***************************************************************************)
Procs == {"procA", "procB"}
NoProc == "<nobody>"
Pids == {1111, 2222}
RegisterInputs ==
    { [port |-> 24282, context |-> NoneStr, modes |-> NoneModes],
      [port |-> 24283, context |-> "ide-assistant", modes |-> <<"editing">>] }
ProjectInputs ==
    { [name |-> NoneStr, root |-> NoneStr],
      [name |-> "", root |-> NoneStr],
      [name |-> "projA", root |-> "/work/projA"] }
PruneTimeouts == {0, ZOMBIE_TIMEOUT_SECONDS}
\* seconds that may pass before an operation reads the clock
RegElapsed == {0, 1, ZOMBIE_TIMEOUT_SECONDS}

\* the text Python's f-string gives for a timeout
NumRepr(n) == CASE n = 0 -> "0" [] n = 300 -> "300" [] OTHER -> "<number>"

(***************************************************************************)
(* Dataclasses                                                             *)
(***************************************************************************)
LifecycleEvent(t, type, pid, port, project_name, message) ==
    [timestamp |-> t, event_type |-> type, pid |-> pid, port |-> port,
     project_name |-> project_name, message |-> message]

InstanceInfo_NoHeartbeat(pid, port, t, context, modes) ==
    [pid |-> pid, port |-> port, started_at |-> t, last_heartbeat |-> 0,
     context |-> context, modes |-> modes, project_name |-> NoneStr,
     project_root |-> NoneStr, state |-> LIVE_NO_PROJECT,
     zombie_detected_at |-> NoneNum]

InstanceInfo(pid, port, t, context, modes) ==
    [pid |-> pid, port |-> port, started_at |-> t, last_heartbeat |-> t,
     context |-> context, modes |-> modes, project_name |-> NoneStr,
     project_root |-> NoneStr, state |-> LIVE_NO_PROJECT,
     zombie_detected_at |-> NoneNum]

\* RegistryData(): instances is Python's insertion-ordered dict, a sequence of
\* (key, info) entries with distinct keys
RegistryData ==
    [instances |-> <<>>, lifecycle_events |-> <<>>,
     global_dashboard_pid |-> NoneNum, global_dashboard_port |-> NoneNum]

\* dict operations on instances
HasKey(insts, pid) == \E i \in 1..Len(insts) : insts[i].key = pid
IndexOf(insts, pid) == CHOOSE i \in 1..Len(insts) : insts[i].key = pid
GetInst(insts, pid) == insts[IndexOf(insts, pid)].info
SetInst(insts, pid, info) ==
    IF HasKey(insts, pid)
    THEN [insts EXCEPT ![IndexOf(insts, pid)] = [key |-> pid, info |-> info]]
    ELSE Append(insts, [key |-> pid, info |-> info])
DelInst(insts, pid) == SelectSeq(insts, LAMBDA e : e.key # pid)
Keys(insts) == [i \in 1..Len(insts) |-> insts[i].key]
KeySet(insts) == {insts[i].key : i \in 1..Len(insts)}

\* str(k) of a pid key and int(k) back
PidToStr(k) == <<"str", k>>
StrToPid(s) == s[2]

\* RegistryData.to_dict / from_dict
ToDict(data) ==
    [instances |-> [i \in 1..Len(data.instances) |->
                      [key |-> PidToStr(data.instances[i].key), info |-> data.instances[i].info]],
     lifecycle_events |-> data.lifecycle_events,
     global_dashboard_pid |-> data.global_dashboard_pid,
     global_dashboard_port |-> data.global_dashboard_port]

FromDict(d) ==
    [instances |-> [i \in 1..Len(d.instances) |->
                      [key |-> StrToPid(d.instances[i].key), info |-> d.instances[i].info]],
     lifecycle_events |-> d.lifecycle_events,
     global_dashboard_pid |-> d.global_dashboard_pid,
     global_dashboard_port |-> d.global_dashboard_port]

\* contents of a file on disk
AbsentFile == [kind |-> "absent", doc |-> ToDict(RegistryData)]
PartialFile == [kind |-> "partial", doc |-> ToDict(RegistryData)]
JsonFile(data) == [kind |-> "json", doc |-> ToDict(data)]

\* _load: a missing file, and one whose parse error _load catches, reads as an
\* empty registry
Load(f) == IF f.kind = "json" THEN FromDict(f.doc) ELSE RegistryData

\* _save trims the event ring before writing
LastN(s, n) == IF Len(s) > n THEN SubSeq(s, Len(s) - n + 1, Len(s)) ELSE s
Trim_Oldest(data) ==
    [data EXCEPT !.lifecycle_events =
        IF Len(@) > MAX_LIFECYCLE_EVENTS THEN SubSeq(@, 1, MAX_LIFECYCLE_EVENTS) ELSE @]

Trim(data) == [data EXCEPT !.lifecycle_events = LastN(@, MAX_LIFECYCLE_EVENTS)]

AddEvent(data, t, type, pid, port, project_name, message) ==
    [data EXCEPT !.lifecycle_events =
        Append(@, LifecycleEvent(t, type, pid, port, project_name, message))]

(***************************************************************************)
(* InstanceRegistry operations: the in-memory part of each operation, run  *)
(* under the file lock on the loaded document at clock reading t.  Each    *)
(* gives the mutated data, whether the operation reaches _save, and the    *)
(* return value.                                                           *)
(***************************************************************************)
NoInfo == InstanceInfo(NoneNum, NoneNum, NoneNum, NoneStr, <<>>)
RetNone == [kind |-> "none", info |-> NoInfo, pids |-> <<>>]
RetInfo(info) == [kind |-> "info", info |-> info, pids |-> <<>>]
RetPids(pids) == [kind |-> "pids", info |-> NoInfo, pids |-> pids]
RetTimeout == [kind |-> "lock_timeout", info |-> NoInfo, pids |-> <<>>]
Outcome(data, save, ret) == [data |-> data, save |-> save, ret |-> ret]

StartedMessage(context, modes) == <<"Context: ", context, ", Modes: ">> \o modes
PrunedMessage(timeout) == <<"Auto-pruned after ", NumRepr(timeout), "s">>
ForceKillMessage(success) == <<"Force kill ", IF success THEN "succeeded" ELSE "failed">>
NoMessage == <<NoneStr>>

\* if existing.state == InstanceState.ZOMBIE.value  (line 232)
WasZombie_Never(existing) == FALSE

WasZombie(existing) == existing.state = ZOMBIE

Register(data, pid, port, context, modes, t) ==
    IF ~HasKey(data.instances, pid)
    THEN LET info == InstanceInfo(pid, port, t, context, ModesOrEmpty(modes))
             d1 == [data EXCEPT !.instances = SetInst(@, pid, info)]
             d2 == AddEvent(d1, t, INSTANCE_STARTED, pid, port, NoneStr,
                            StartedMessage(context, modes))
         IN Outcome(d2, TRUE, RetInfo(info))
    ELSE LET existing == GetInst(data.instances, pid)
             e1 == [existing EXCEPT !.port = port, !.last_heartbeat = t,
                                    !.context = context, !.modes = ModesOrEmpty(modes)]
             wasZombie == WasZombie(existing)
             e2 == IF wasZombie
                   THEN [e1 EXCEPT !.state = LIVE_NO_PROJECT, !.zombie_detected_at = NoneNum]
                   ELSE e1
             d1 == [data EXCEPT !.instances = SetInst(@, pid, e2)]
             d2 == IF wasZombie
                   THEN AddEvent(d1, t, HEARTBEAT_RESTORED, pid, port, NoneStr, NoMessage)
                   ELSE d1
         IN Outcome(d2, TRUE, RetInfo(e2))

\* if old_project != project_name  (line 261)
NameChanged_Always(old_project, project_name) == TRUE

NameChanged(old_project, project_name) == old_project # project_name

UpdateProject(data, pid, project_name, project_root, t) ==
    IF ~HasKey(data.instances, pid)
    THEN Outcome(data, FALSE, RetNone)
    ELSE LET inst == GetInst(data.instances, pid)
             old_project == inst.project_name
             i1 == [inst EXCEPT !.project_name = project_name,
                                !.project_root = project_root,
                                !.last_heartbeat = t]
             i2 == [i1 EXCEPT !.state = IF TruthyStr(project_name)
                                        THEN LIVE_WITH_PROJECT ELSE LIVE_NO_PROJECT]
             d1 == [data EXCEPT !.instances = SetInst(@, pid, i2)]
             d2 == IF TruthyStr(project_name)
                   THEN IF NameChanged(old_project, project_name)
                        THEN AddEvent(d1, t, PROJECT_ACTIVATED, pid, inst.port,
                                      project_name, NoMessage)
                        ELSE d1
                   ELSE IF TruthyStr(old_project)
                        THEN AddEvent(d1, t, PROJECT_DEACTIVATED, pid, inst.port,
                                      old_project, NoMessage)
                        ELSE d1
         IN Outcome(d2, TRUE, RetNone)

\* line 291: the state a zombie is restored to
RestoredState_AlwaysNoProject(inst) == LIVE_NO_PROJECT
RestoredState(inst) ==
    IF TruthyStr(inst.project_name) THEN LIVE_WITH_PROJECT ELSE LIVE_NO_PROJECT

UpdateHeartbeat(data, pid, t) ==
    IF ~HasKey(data.instances, pid)
    THEN Outcome(data, FALSE, RetNone)
    ELSE LET inst == GetInst(data.instances, pid)
             i1 == [inst EXCEPT !.last_heartbeat = t]
             wasZombie == i1.state = ZOMBIE
             i2 == IF wasZombie
                   THEN [i1 EXCEPT !.state = RestoredState(i1),
                                   !.zombie_detected_at = NoneNum]
                   ELSE i1
             d1 == [data EXCEPT !.instances = SetInst(@, pid, i2)]
             d2 == IF wasZombie
                   THEN AddEvent(d1, t, HEARTBEAT_RESTORED, pid, i2.port,
                                 i2.project_name, NoMessage)
                   ELSE d1
         IN Outcome(d2, TRUE, RetNone)

Unregister(data, pid, t) ==
    IF ~HasKey(data.instances, pid)
    THEN Outcome(data, FALSE, RetNone)
    ELSE LET inst == GetInst(data.instances, pid)
             d1 == AddEvent(data, t, INSTANCE_STOPPED, pid, inst.port,
                            inst.project_name, NoMessage)
             d2 == [d1 EXCEPT !.instances = DelInst(@, pid)]
         IN Outcome(d2, TRUE, RetNone)

\* line 324: mark_zombie acts only on an instance that is not yet a zombie
NeedsMark_Always(inst) == TRUE
NeedsMark(inst) == inst.state # ZOMBIE

MarkZombie(data, pid, t) ==
    IF ~HasKey(data.instances, pid)
    THEN Outcome(data, FALSE, RetNone)
    ELSE LET inst == GetInst(data.instances, pid)
         IN IF NeedsMark(inst)
            THEN LET i1 == [inst EXCEPT !.state = ZOMBIE, !.zombie_detected_at = t]
                     d1 == [data EXCEPT !.instances = SetInst(@, pid, i1)]
                     d2 == AddEvent(d1, t, ZOMBIE_DETECTED, pid, i1.port,
                                    i1.project_name, NoMessage)
                 IN Outcome(d2, TRUE, RetNone)
            ELSE Outcome(data, FALSE, RetNone)

\* lines 350-351: the instances prune_zombies collects
ShouldPrune_AtTimeout(inst, t, timeout_seconds) ==
    /\ inst.state = ZOMBIE
    /\ TruthyNum(inst.zombie_detected_at)
    /\ (t - inst.zombie_detected_at) >= timeout_seconds
ShouldPrune(inst, t, timeout_seconds) ==
    /\ inst.state = ZOMBIE
    /\ TruthyNum(inst.zombie_detected_at)
    /\ (t - inst.zombie_detected_at) > timeout_seconds

\* lines 354-365: one event and one deletion per collected pid, in order
RECURSIVE PruneLoop(_, _, _, _, _)
PruneLoop(data, to_remove, pruned, timeout_seconds, t) ==
    IF to_remove = <<>>
    THEN [data |-> data, pruned |-> pruned]
    ELSE LET pid == Head(to_remove)
             inst == GetInst(data.instances, pid)
             d1 == AddEvent(data, t, ZOMBIE_PRUNED, pid, inst.port,
                            inst.project_name, PrunedMessage(timeout_seconds))
             d2 == [d1 EXCEPT !.instances = DelInst(@, pid)]
         IN PruneLoop(d2, Tail(to_remove), Append(pruned, pid), timeout_seconds, t)

PruneZombies(data, timeout_seconds, t) ==
    LET hit == SelectSeq(data.instances,
                         LAMBDA e : ShouldPrune(e.info, t, timeout_seconds))
        to_remove == Keys(hit)
        r == PruneLoop(data, to_remove, <<>>, timeout_seconds, t)
    IN Outcome(r.data, r.pruned # <<>>, RetPids(r.pruned))

RecordForceKill(data, pid, success, t) ==
    LET known == HasKey(data.instances, pid)
        port == IF known THEN GetInst(data.instances, pid).port ELSE 0
        project == IF known THEN GetInst(data.instances, pid).project_name ELSE NoneStr
        d1 == AddEvent(data, t, ZOMBIE_FORCE_KILLED, pid, port, project,
                       ForceKillMessage(success))
        d2 == IF success /\ known
              THEN [d1 EXCEPT !.instances = DelInst(@, pid)]
              ELSE d1
    IN Outcome(d2, TRUE, RetNone)

(***************************************************************************)
(* An operation with its arguments, and its dispatch                       *)
(***************************************************************************)
Op(name, pid, reg, proj, timeout, success) ==
    [name |-> name, pid |-> pid, port |-> reg.port, context |-> reg.context,
     modes |-> reg.modes, project_name |-> proj.name, project_root |-> proj.root,
     timeout |-> timeout, success |-> success]

NoReg == [port |-> NoneNum, context |-> NoneStr, modes |-> NoneModes]
NoProj == [name |-> NoneStr, root |-> NoneStr]
NoOp == Op("none", NoneNum, NoReg, NoProj, NoneNum, FALSE)

RegistryOps ==
    {Op("register", pid, reg, NoProj, NoneNum, FALSE) : pid \in Pids, reg \in RegisterInputs}
    \cup {Op("update_project", a[1], NoReg, a[2], NoneNum, FALSE) :
             a \in Pids \X ProjectInputs}
    \cup {Op(n, pid, NoReg, NoProj, NoneNum, FALSE) :
             n \in {"update_heartbeat", "mark_zombie", "unregister"}, pid \in Pids}
    \cup {Op("prune_zombies", NoneNum, NoReg, NoProj, timeout, FALSE) :
             timeout \in PruneTimeouts}
    \cup {Op("record_force_kill", pid, NoReg, NoProj, NoneNum, success) :
             pid \in Pids, success \in BOOLEAN}

ApplyOp(op, data, t) ==
    CASE op.name = "register" ->
            Register(data, op.pid, op.port, op.context, op.modes, t)
      [] op.name = "update_project" ->
            UpdateProject(data, op.pid, op.project_name, op.project_root, t)
      [] op.name = "update_heartbeat" -> UpdateHeartbeat(data, op.pid, t)
      [] op.name = "mark_zombie" -> MarkZombie(data, op.pid, t)
      [] op.name = "unregister" -> Unregister(data, op.pid, t)
      [] op.name = "prune_zombies" -> PruneZombies(data, op.timeout, t)
      [] op.name = "record_force_kill" -> RecordForceKill(data, op.pid, op.success, t)
      [] OTHER -> Outcome(data, FALSE, RetNone)

(***************************************************************************)
(* Registry documents the operations produce, used as initial contents of  *)
(* instances.json: empty; one live instance; one with a project; that one  *)
(* a zombie; and two zombies detected ZOMBIE_TIMEOUT_SECONDS apart.        *)
(***************************************************************************)
\* the whole operation applied to a document in one step
WholeOp(op, doc, t) ==
    LET out == ApplyOp(op, doc, t)
    IN IF out.save THEN Trim(out.data) ELSE doc

RegA == [port |-> 24282, context |-> NoneStr, modes |-> NoneModes]
RegB == [port |-> 24283, context |-> "ide-assistant", modes |-> <<"editing">>]
ProjA == [name |-> "projA", root |-> "/work/projA"]
DocLive == WholeOp(Op("register", 1111, RegA, NoProj, NoneNum, FALSE), RegistryData, 1)
DocProject == WholeOp(Op("update_project", 1111, NoReg, ProjA, NoneNum, FALSE), DocLive, 1)
DocZombie == WholeOp(Op("mark_zombie", 1111, NoReg, NoProj, NoneNum, FALSE), DocProject, 1)
DocTwoZombies ==
    WholeOp(Op("mark_zombie", 2222, NoReg, NoProj, NoneNum, FALSE),
            WholeOp(Op("register", 2222, RegB, NoProj, NoneNum, FALSE), DocZombie,
                    1 + ZOMBIE_TIMEOUT_SECONDS),
            1 + ZOMBIE_TIMEOUT_SECONDS)
InitialDocs == {DocProject, DocTwoZombies}
InitialFiles == {AbsentFile} \cup {JsonFile(d) : d \in InitialDocs}

(***************************************************************************)
(* The registry processes.  Every public operation is                      *)
(*     with self._lock: data = self._load(); <mutate>; self._save(data)    *)
(* and _save writes instances.tmp and renames it over instances.json.      *)
(***************************************************************************)
Locals(op) ==
    [op |-> op, at |-> NoneNum, pre |-> RegistryData,
     data |-> RegistryData, save |-> FALSE, ret |-> RetNone]

\* the operations the concurrent processes issue: each kind, on either pid
ConcurrentOps ==
    {Op("register", pid, RegA, NoProj, NoneNum, FALSE) : pid \in Pids}
    \cup {Op("update_project", pid, NoReg, ProjA, NoneNum, FALSE) : pid \in Pids}
    \cup {Op(n, pid, NoReg, NoProj, NoneNum, FALSE) :
             n \in {"update_heartbeat", "mark_zombie", "unregister"}, pid \in Pids}
    \cup {Op("prune_zombies", NoneNum, NoReg, NoProj, 0, FALSE)}
    \cup {Op("record_force_kill", pid, NoReg, NoProj, NoneNum, TRUE) : pid \in Pids}
ConcurrentElapsed == {0, 1}
ConcurrentFiles == {AbsentFile, JsonFile(DocProject), JsonFile(DocTwoZombies)}

\* FileLock.acquire: the lock is taken only when no other process holds it
CanAcquire_Unlocked(p) == TRUE
CanAcquire(p) == lockHolder = NoProc

\* a process calls an operation and reaches `with self._lock`
RegBegin(p) ==
    /\ rpc[p] = "idle"
    /\ rpc' = [rpc EXCEPT ![p] = "acquiring"]
    /\ UNCHANGED <<now, file, tmpfile, lockHolder, rloc, opsStarted, serial, hist>>
    /\ UNCHANGED <<sessVars, bridge, dash>>

\* the lock is acquired for operation op
RegAcquire(p, op) ==
    /\ rpc[p] = "acquiring"
    /\ opsStarted < MaxRegOps
    /\ CanAcquire(p)
    /\ opsStarted' = opsStarted + 1
    /\ lockHolder' = p
    /\ rpc' = [rpc EXCEPT ![p] = "locked"]
    /\ rloc' = [rloc EXCEPT ![p] = Locals(op)]
    /\ UNCHANGED <<now, file, tmpfile, serial, hist>>
    /\ UNCHANGED <<sessVars, bridge, dash>>

\* FileLock(timeout=10) gives up while another process holds the lock: Timeout
\* is raised before anything is loaded, and the operation has no effect
RegLockTimeout(p) ==
    /\ rpc[p] = "acquiring"
    /\ ~CanAcquire(p)
    /\ rpc' = [rpc EXCEPT ![p] = "idle"]
    /\ UNCHANGED <<now, file, tmpfile, lockHolder, rloc, opsStarted, serial, hist>>
    /\ UNCHANGED <<sessVars, bridge, dash>>

\* _load and the in-memory mutation, at clock reading t
RegLoadMutate(p, t) ==
    /\ rpc[p] = "locked"
    /\ now' = t
    /\ LET pre == Load(file)
           out == ApplyOp(rloc[p].op, pre, t)
       IN /\ rloc' = [rloc EXCEPT ![p].at = t, ![p].pre = pre, ![p].data = out.data,
                                  ![p].save = out.save, ![p].ret = out.ret]
          /\ rpc' = [rpc EXCEPT ![p] = IF out.save THEN "save" ELSE "release"]
    /\ serial' = WholeOp(rloc[p].op, serial, t)
    /\ UNCHANGED <<file, tmpfile, lockHolder, opsStarted, hist>>
    /\ UNCHANGED <<sessVars, bridge, dash>>

\* _save: trim, then tmp_path.open("w") truncates instances.tmp
RegSaveOpen(p) ==
    /\ rpc[p] = "save"
    /\ rloc' = [rloc EXCEPT ![p].data = Trim(@)]
    /\ tmpfile' = PartialFile
    /\ rpc' = [rpc EXCEPT ![p] = "dump"]
    /\ UNCHANGED <<now, file, lockHolder, opsStarted, serial, hist>>
    /\ UNCHANGED <<sessVars, bridge, dash>>

\* json.dump and close
RegSaveDump(p) ==
    /\ rpc[p] = "dump"
    /\ tmpfile' = JsonFile(rloc[p].data)
    /\ rpc' = [rpc EXCEPT ![p] = "replace"]
    /\ UNCHANGED <<now, file, lockHolder, rloc, opsStarted, serial, hist>>
    /\ UNCHANGED <<sessVars, bridge, dash>>

\* the file _save's rename puts in place of instances.json
Renamed_InPlace(tmp) == PartialFile
Renamed(tmp) == tmp

\* tmp_path.replace(registry_path)
RegSaveReplace(p) ==
    /\ rpc[p] = "replace"
    /\ file' = Renamed(tmpfile)
    /\ tmpfile' = AbsentFile
    /\ rpc' = [rpc EXCEPT ![p] = "release"]
    /\ UNCHANGED <<now, lockHolder, rloc, opsStarted, serial, hist>>
    /\ UNCHANGED <<sessVars, bridge, dash>>

\* leaving `with self._lock`: the locals go out of scope
RegRelease(p) ==
    /\ rpc[p] = "release"
    /\ lockHolder' = NoProc
    /\ rpc' = [rpc EXCEPT ![p] = "idle"]
    /\ rloc' = [rloc EXCEPT ![p] = Locals(NoOp)]
    /\ UNCHANGED <<now, file, tmpfile, opsStarted, serial, hist>>
    /\ UNCHANGED <<sessVars, bridge, dash>>

NoHist == [op |-> NoOp, at |-> NoneNum, pre |-> RegistryData, post |-> RegistryData,
           ret |-> RetNone, prev |-> NoOp]

\* No server process runs beside the registry's processes.
NoServer ==
    /\ sess = <<>>
    /\ sessions = <<>>
    /\ mgrLock = <<>>
    /\ thr = <<>>
    /\ reaper = <<>>
    /\ srv = <<>>
    /\ sessOps = <<>>
    /\ sessHist = <<>>

\* No bridge process and no fleet dashboard run.
NoBridge == bridge = <<>>
NoDashboard == dash = <<>>

RegIdle ==
    /\ now = 1 + ZOMBIE_TIMEOUT_SECONDS
    /\ NoServer
    /\ tmpfile = AbsentFile
    /\ lockHolder = NoProc
    /\ rpc = [p \in Procs |-> "idle"]
    /\ rloc = [p \in Procs |-> Locals(NoOp)]
    /\ opsStarted = 0
    /\ serial = Load(file)
    /\ hist = NoHist

Init ==
    /\ file \in ConcurrentFiles
    /\ RegIdle
    /\ NoBridge
    /\ NoDashboard

Next ==
    \/ \E p \in Procs : RegBegin(p)
    \/ \E p \in Procs : \E op \in ConcurrentOps : RegAcquire(p, op)
    \/ \E p \in Procs : RegLockTimeout(p)
    \/ \E p \in Procs : \E d \in ConcurrentElapsed : RegLoadMutate(p, now + d)
    \/ \E p \in Procs : RegSaveOpen(p)
    \/ \E p \in Procs : RegSaveDump(p)
    \/ \E p \in Procs : RegSaveReplace(p)
    \/ \E p \in Procs : RegRelease(p)

Spec == Init /\ [][Next]_vars

(***************************************************************************)
(* C1                                                                      *)
(***************************************************************************)
\* once no operation holds the lock, instances.json holds what running the
\* whole operations one after another, in the order they took the lock, gives
NoLostUpdate ==
    lockHolder = NoProc => Load(file) = serial

\* a reader of instances.json finds a complete document: the one the running
\* operation loaded (old) or the one it saved (new)
OldOrNew ==
    /\ file.kind \in {"absent", "json"}
    /\ \A p \in Procs :
         /\ rpc[p] \in {"save", "dump", "replace"} => Load(file) = rloc[p].pre
         /\ rpc[p] = "release" =>
              Load(file) = IF rloc[p].save THEN rloc[p].data ELSE rloc[p].pre

\* C1: for any interleaving of the registry operations of distinct processes on
\* one registry file, each load-mutate-write runs under the file lock: the file
\* equals the result of a serial order of the whole operations (no update is
\* lost) and a reader always finds a complete document, the old or the new one.
C1_SerializableUnderLock ==
    /\ NoLostUpdate
    /\ OldOrNew
    /\ \A p \in Procs : rpc[p] \in {"locked", "save", "dump", "replace", "release"}
                          => lockHolder = p

\* a second operation is at its rename while the other process waits for the lock
C1_Witness ==
    \E p, q \in Procs :
        /\ p # q
        /\ opsStarted = 2
        /\ rpc[p] = "replace"
        /\ rpc[q] = "acquiring"
        /\ Load(tmpfile) # Load(file)

(***************************************************************************)
(* The registry operations as whole calls: by C1 each runs alone under the *)
(* lock, so one call is one step from the document on disk to the next.    *)
(* hist keeps the call completed last: its arguments, clock reading,       *)
(* loaded and resulting document, return value, and the call before it.    *)
(***************************************************************************)
RegistryCall(op, t) ==
    /\ opsStarted < MaxRegOps
    /\ lockHolder = NoProc
    /\ opsStarted' = opsStarted + 1
    /\ now' = t
    /\ LET pre == Load(file)
           out == ApplyOp(op, pre, t)
       IN /\ file' = IF out.save THEN Renamed(JsonFile(Trim(out.data))) ELSE file
          /\ hist' = [op |-> op, at |-> t, pre |-> pre, post |-> Load(file'),
                      ret |-> out.ret, prev |-> hist.op]
    /\ serial' = WholeOp(op, serial, t)
    /\ UNCHANGED <<tmpfile, lockHolder, rpc, rloc>>
    /\ UNCHANGED <<sessVars, bridge, dash>>

CallRegister(pid, reg, t) ==
    RegistryCall(Op("register", pid, reg, NoProj, NoneNum, FALSE), t)
CallUpdateProject(pid, proj, t) ==
    RegistryCall(Op("update_project", pid, NoReg, proj, NoneNum, FALSE), t)
CallUpdateHeartbeat(pid, t) ==
    RegistryCall(Op("update_heartbeat", pid, NoReg, NoProj, NoneNum, FALSE), t)
CallUnregister(pid, t) ==
    RegistryCall(Op("unregister", pid, NoReg, NoProj, NoneNum, FALSE), t)
CallMarkZombie(pid, t) ==
    RegistryCall(Op("mark_zombie", pid, NoReg, NoProj, NoneNum, FALSE), t)
CallPruneZombies(timeout, t) ==
    RegistryCall(Op("prune_zombies", NoneNum, NoReg, NoProj, timeout, FALSE), t)
CallRecordForceKill(pid, success, t) ==
    RegistryCall(Op("record_force_kill", pid, NoReg, NoProj, NoneNum, success), t)

InitRegistry ==
    /\ file \in InitialFiles
    /\ RegIdle
    /\ NoBridge
    /\ NoDashboard

NextRegistry ==
    \E d \in RegElapsed :
        \/ \E pid \in Pids : \E reg \in RegisterInputs : CallRegister(pid, reg, now + d)
        \/ \E pid \in Pids : \E proj \in ProjectInputs : CallUpdateProject(pid, proj, now + d)
        \/ \E pid \in Pids : CallUpdateHeartbeat(pid, now + d)
        \/ \E pid \in Pids : CallUnregister(pid, now + d)
        \/ \E pid \in Pids : CallMarkZombie(pid, now + d)
        \/ \E timeout \in PruneTimeouts : CallPruneZombies(timeout, now + d)
        \/ \E pid \in Pids : \E success \in BOOLEAN : CallRecordForceKill(pid, success, now + d)

SpecRegistry == InitRegistry /\ [][NextRegistry]_vars

\* the events a call appended, and whether it kept the ones before
NewEvents(h) ==
    SubSeq(h.post.lifecycle_events, Len(h.pre.lifecycle_events) + 1,
           Len(h.post.lifecycle_events))
KeepsEvents(h) ==
    /\ Len(h.post.lifecycle_events) >= Len(h.pre.lifecycle_events)
    /\ SubSeq(h.post.lifecycle_events, 1, Len(h.pre.lifecycle_events))
         = h.pre.lifecycle_events
SeqToSet(q) == {q[i] : i \in 1..Len(q)}
IsLive(state) == state \in {LIVE_NO_PROJECT, LIVE_WITH_PROJECT}

(***************************************************************************)
(* C3                                                                      *)
(***************************************************************************)
\* the zombies of h.pre that call h finds older than its timeout
Expired(h) ==
    {k \in KeySet(h.pre.instances) :
        /\ GetInst(h.pre.instances, k).state = ZOMBIE
        /\ h.at - GetInst(h.pre.instances, k).zombie_detected_at > h.op.timeout}

\* C3: prune_zombies(timeout) removes exactly the instances that are ZOMBIE with
\* now - zombie_detected_at > timeout, emits one ZOMBIE_PRUNED event per removed
\* pid and returns the removed pids; it removes no instance that is not ZOMBIE
\* and no ZOMBIE with now - zombie_detected_at <= timeout.
C3_PruneExactlyExpired ==
    hist.op.name = "prune_zombies" =>
        /\ KeySet(hist.post.instances) = KeySet(hist.pre.instances) \ Expired(hist)
        /\ \A k \in KeySet(hist.post.instances) :
              GetInst(hist.post.instances, k) = GetInst(hist.pre.instances, k)
        /\ hist.ret.kind = "pids"
        /\ SeqToSet(hist.ret.pids) = Expired(hist)
        /\ Len(hist.ret.pids) = Cardinality(Expired(hist))
        /\ KeepsEvents(hist)
        /\ Len(NewEvents(hist)) = Cardinality(Expired(hist))
        /\ \A i \in 1..Len(NewEvents(hist)) :
              /\ NewEvents(hist)[i].event_type = ZOMBIE_PRUNED
              /\ NewEvents(hist)[i].pid = hist.ret.pids[i]

\* a prune that removed one zombie and kept another whose age equals the timeout
C3_Witness ==
    /\ hist.op.name = "prune_zombies"
    /\ hist.ret.pids # <<>>
    /\ \E k \in KeySet(hist.post.instances) :
          /\ GetInst(hist.post.instances, k).state = ZOMBIE
          /\ hist.at - GetInst(hist.post.instances, k).zombie_detected_at = hist.op.timeout

(***************************************************************************)
(* C4                                                                      *)
(***************************************************************************)
MarkedThenHeartbeat(h) ==
    /\ h.op.name = "update_heartbeat"
    /\ h.prev.name = "mark_zombie"
    /\ h.prev.pid = h.op.pid
    /\ h.op.pid \in KeySet(h.pre.instances)

\* C4: after mark_zombie(p) followed by update_heartbeat(p) on a registered pid
\* the instance is LIVE_WITH_PROJECT if it has a project name and LIVE_NO_PROJECT
\* otherwise, its zombie_detected_at is cleared, and the event log holds a
\* HEARTBEAT_RESTORED event for p.
C4_HeartbeatRestoresZombie ==
    MarkedThenHeartbeat(hist) =>
        LET inst == GetInst(hist.post.instances, hist.op.pid)
        IN /\ hist.op.pid \in KeySet(hist.post.instances)
           /\ inst.state = IF TruthyStr(inst.project_name)
                           THEN LIVE_WITH_PROJECT ELSE LIVE_NO_PROJECT
           /\ inst.zombie_detected_at = NoneNum
           /\ \E i \in 1..Len(hist.post.lifecycle_events) :
                 /\ hist.post.lifecycle_events[i].event_type = HEARTBEAT_RESTORED
                 /\ hist.post.lifecycle_events[i].pid = hist.op.pid

\* the restored instance has a project
C4_Witness ==
    /\ MarkedThenHeartbeat(hist)
    /\ GetInst(hist.post.instances, hist.op.pid).state = LIVE_WITH_PROJECT
    /\ GetInst(hist.pre.instances, hist.op.pid).state = ZOMBIE

(***************************************************************************)
(* C5                                                                      *)
(***************************************************************************)
\* C5: mark_zombie(pid) changes the state to ZOMBIE, sets zombie_detected_at and
\* emits ZOMBIE_DETECTED only when the instance was live; on an instance that is
\* already ZOMBIE, and on an unknown pid, it leaves the document unchanged.
C5_MarkZombieIdempotent ==
    hist.op.name = "mark_zombie" =>
        IF /\ hist.op.pid \in KeySet(hist.pre.instances)
           /\ IsLive(GetInst(hist.pre.instances, hist.op.pid).state)
        THEN /\ Keys(hist.post.instances) = Keys(hist.pre.instances)
             /\ \A k \in KeySet(hist.pre.instances) \ {hist.op.pid} :
                   GetInst(hist.post.instances, k) = GetInst(hist.pre.instances, k)
             /\ GetInst(hist.post.instances, hist.op.pid) =
                   [GetInst(hist.pre.instances, hist.op.pid) EXCEPT
                       !.state = ZOMBIE, !.zombie_detected_at = hist.at]
             /\ KeepsEvents(hist)
             /\ Len(NewEvents(hist)) = 1
             /\ NewEvents(hist)[1].event_type = ZOMBIE_DETECTED
             /\ NewEvents(hist)[1].pid = hist.op.pid
        ELSE hist.post = hist.pre

\* mark_zombie repeated on a registered pid, later than the first detection
C5_Witness ==
    /\ hist.op.name = "mark_zombie"
    /\ hist.prev.name = "mark_zombie"
    /\ hist.prev.pid = hist.op.pid
    /\ hist.op.pid \in KeySet(hist.pre.instances)
    /\ GetInst(hist.pre.instances, hist.op.pid).state = ZOMBIE
    /\ hist.at > GetInst(hist.pre.instances, hist.op.pid).zombie_detected_at

(***************************************************************************)
(* session.py: Session                                                     *)
(***************************************************************************)
IDLE_TIMEOUT_SECONDS == 300

CONNECTED == "connected"
ACTIVE == "active"
IDLE == "idle"
DISCONNECTED == "disconnected"

Threads == {"t1", "t2"}
NoThread == "<no thread>"
\* The thread of the caller of a call that the model takes in one step.
Caller == "main"

ToolNames == {"find_symbol", "replace_symbol_body"}
\* increment_tool_calls(tool_name): a name, or None
ToolInputs == ToolNames \cup {NoneStr}
\* set_active_project(project): a Project, or None
SessionProjects == {NoneStr, "projA"}
\* set_active_modes(modes)
SessionModes == {<<>>, <<"editing">>}
\* the values the program assigns to Session.state
StoredStates == {CONNECTED, ACTIVE, DISCONNECTED}
\* seconds between two readings of the clock
SessElapsed == {0, 1, IDLE_TIMEOUT_SECONDS}

\* Session.__init__
NewSession(session_id, t) ==
    [session_id |-> session_id,
     created_at |-> t,
     last_activity |-> t,
     state |-> CONNECTED,
     active_project |-> NoneStr,
     active_modes |-> <<>>,
     tool_call_count |-> 0,
     tool_stats |-> [n \in ToolNames |-> 0],
     lock |-> NoThread]

\* threading.RLock: free, or held by the same thread
CanLockSession_Unlocked(s, t) == TRUE

CanLockSession(s, t) == s.lock \in {NoThread, t}

\* the state property: the value returned, and the session after the read
StateGet_Persisting(s, t) ==
    IF s.state \in {CONNECTED, ACTIVE} /\ t - s.last_activity > IDLE_TIMEOUT_SECONDS
    THEN [value |-> IDLE, session |-> [s EXCEPT !.state = IDLE]]
    ELSE [value |-> s.state, session |-> s]

StateGet(s, t) ==
    IF s.state \in {CONNECTED, ACTIVE} /\ t - s.last_activity > IDLE_TIMEOUT_SECONDS
    THEN [value |-> IDLE, session |-> s]
    ELSE [value |-> s.state, session |-> s]

\* the state setter
StateSet(s, value) == [s EXCEPT !.state = value]

Touch(s, t) == [s EXCEPT !.last_activity = t]

SetActiveProject_KeepsState(s, project, t) ==
    Touch([s EXCEPT !.active_project = project], t)

SetActiveProject(s, project, t) ==
    Touch([s EXCEPT !.active_project = project,
                    !.state = IF project # NoneStr THEN ACTIVE ELSE CONNECTED], t)

SetActiveModes(s, modes, t) == Touch([s EXCEPT !.active_modes = modes], t)

\* increment_tool_calls, the whole critical section
IncrementToolCalls(s, tool_name, t) ==
    LET counted == [s EXCEPT !.tool_call_count = @ + 1]
        named == IF TruthyStr(tool_name)
                 THEN [counted EXCEPT !.tool_stats[tool_name] = @ + 1]
                 ELSE counted
    IN Touch(named, t)

Disconnect(s, t) == Touch([s EXCEPT !.state = DISCONNECTED], t)

(***************************************************************************)
(* One Session used by several threads.  increment_tool_calls is taken     *)
(* statement by statement; the other methods are one critical section      *)
(* each, run by a further thread when the session's lock is free.          *)
(***************************************************************************)
MaxCalls == 2
MaxSessOps == 3

S1 == "s1"

\* No registry operation runs beside the server process.
NoRegistry ==
    /\ file = AbsentFile
    /\ tmpfile = AbsentFile
    /\ lockHolder = NoProc
    /\ rpc = [p \in Procs |-> "idle"]
    /\ rloc = [p \in Procs |-> Locals(NoOp)]
    /\ opsStarted = 0
    /\ serial = Load(file)
    /\ hist = NoHist

ThreadIdle == [pc |-> "idle", tool |-> NoneStr, tmp |-> 0]

NoRead == [valid |-> FALSE]

\* with self._lock:  (line 197)
IncBegin(t, tool_name) ==
    /\ thr[t].pc = "idle"
    /\ sessOps.calls[t] < MaxCalls
    /\ thr' = [thr EXCEPT ![t] = [pc |-> "lock", tool |-> tool_name, tmp |-> 0]]
    /\ sessOps' = [sessOps EXCEPT !.calls[t] = @ + 1]
    /\ sessHist' = [sessHist EXCEPT !.made[tool_name] = @ + 1]
    /\ UNCHANGED <<now, sess, sessions, mgrLock, reaper, srv>>
    /\ UNCHANGED <<regVars, bridge, dash>>

IncLock(t) ==
    /\ thr[t].pc = "lock"
    /\ CanLockSession(sess[S1], t)
    /\ sess' = [sess EXCEPT ![S1].lock = t]
    /\ thr' = [thr EXCEPT ![t].pc = "count_read"]
    /\ UNCHANGED <<now, sessions, mgrLock, reaper, srv, sessOps, sessHist>>
    /\ UNCHANGED <<regVars, bridge, dash>>

\* self._tool_call_count += 1: the read  (line 198)
IncCountRead(t) ==
    /\ thr[t].pc = "count_read"
    /\ thr' = [thr EXCEPT ![t].pc = "count_write", ![t].tmp = sess[S1].tool_call_count]
    /\ UNCHANGED <<now, sess, sessions, mgrLock, reaper, srv, sessOps, sessHist>>
    /\ UNCHANGED <<regVars, bridge, dash>>

\* self._tool_call_count += 1: the write; if tool_name:  (lines 198-199)
IncCountWrite(t) ==
    /\ thr[t].pc = "count_write"
    /\ sess' = [sess EXCEPT ![S1].tool_call_count = thr[t].tmp + 1]
    /\ thr' = [thr EXCEPT ![t].pc = IF TruthyStr(thr[t].tool) THEN "stat_read" ELSE "touch"]
    /\ UNCHANGED <<now, sessions, mgrLock, reaper, srv, sessOps, sessHist>>
    /\ UNCHANGED <<regVars, bridge, dash>>

\* self._tool_stats.get(tool_name, 0)  (line 200)
IncStatRead(t) ==
    /\ thr[t].pc = "stat_read"
    /\ thr' = [thr EXCEPT ![t].pc = "stat_write", ![t].tmp = sess[S1].tool_stats[thr[t].tool]]
    /\ UNCHANGED <<now, sess, sessions, mgrLock, reaper, srv, sessOps, sessHist>>
    /\ UNCHANGED <<regVars, bridge, dash>>

\* self._tool_stats[tool_name] = ... + 1  (line 200)
IncStatWrite(t) ==
    /\ thr[t].pc = "stat_write"
    /\ sess' = [sess EXCEPT ![S1].tool_stats[thr[t].tool] = thr[t].tmp + 1]
    /\ thr' = [thr EXCEPT ![t].pc = "touch"]
    /\ UNCHANGED <<now, sessions, mgrLock, reaper, srv, sessOps, sessHist>>
    /\ UNCHANGED <<regVars, bridge, dash>>

\* self.touch()  (line 201)
IncTouch(t, time) ==
    /\ thr[t].pc = "touch"
    /\ now' = time
    /\ sess' = [sess EXCEPT ![S1] = Touch(@, time)]
    /\ thr' = [thr EXCEPT ![t].pc = "unlock"]
    /\ sessHist' = [sessHist EXCEPT !.mut = "increment_tool_calls", !.mutAt = time]
    /\ UNCHANGED <<sessions, mgrLock, reaper, srv, sessOps>>
    /\ UNCHANGED <<regVars, bridge, dash>>

\* leaving `with self._lock`
IncUnlock(t) ==
    /\ thr[t].pc = "unlock"
    /\ sess' = [sess EXCEPT ![S1].lock = NoThread]
    /\ thr' = [thr EXCEPT ![t] = ThreadIdle]
    /\ UNCHANGED <<now, sessions, mgrLock, reaper, srv, sessOps, sessHist>>
    /\ UNCHANGED <<regVars, bridge, dash>>

\* A method of the session called by a further thread: one critical section.
SessionCall(name, after, time) ==
    /\ sessOps.ops < MaxSessOps
    /\ CanLockSession(sess[S1], Caller)
    /\ now' = time
    /\ sess' = [sess EXCEPT ![S1] = after]
    /\ sessOps' = [sessOps EXCEPT !.ops = @ + 1]
    /\ sessHist' = [sessHist EXCEPT !.mut = name, !.mutAt = time]
    /\ UNCHANGED <<sessions, mgrLock, thr, reaper, srv>>
    /\ UNCHANGED <<regVars, bridge, dash>>

CallTouch(time) == SessionCall("touch", Touch(sess[S1], time), time)

CallSetActiveProject(project, time) ==
    SessionCall("set_active_project", SetActiveProject(sess[S1], project, time), time)

CallSetActiveModes(modes, time) ==
    SessionCall("set_active_modes", SetActiveModes(sess[S1], modes, time), time)

CallIncrementToolCalls(tool_name, time) ==
    SessionCall("increment_tool_calls", IncrementToolCalls(sess[S1], tool_name, time), time)

CallDisconnect(time) == SessionCall("disconnect", Disconnect(sess[S1], time), time)

\* session.state = value: the clock is not read
CallStateSet(value) ==
    /\ value \in StoredStates
    /\ SessionCall("state", StateSet(sess[S1], value), now)

\* reading session.state
CallStateGet(time) ==
    LET got == StateGet(sess[S1], time) IN
    /\ sessOps.ops < MaxSessOps
    /\ CanLockSession(sess[S1], Caller)
    /\ now' = time
    /\ sess' = [sess EXCEPT ![S1] = got.session]
    /\ sessOps' = [sessOps EXCEPT !.ops = @ + 1]
    /\ sessHist' = [sessHist EXCEPT !.read =
           [valid |-> TRUE, value |-> got.value, at |-> time,
            before |-> sess[S1], after |-> got.session,
            prev |-> sessHist.mut, prevAt |-> sessHist.mutAt]]
    /\ UNCHANGED <<sessions, mgrLock, thr, reaper, srv>>
    /\ UNCHANGED <<regVars, bridge, dash>>

InitSession ==
    /\ now = 1
    /\ NoRegistry
    /\ NoBridge
    /\ NoDashboard
    /\ sess = [id \in {S1} |-> NewSession(id, 1)]
    /\ sessions = <<>>
    /\ mgrLock = NoThread
    /\ thr = [t \in Threads |-> ThreadIdle]
    /\ reaper = <<>>
    /\ srv = <<>>
    /\ sessOps = [calls |-> [t \in Threads |-> 0], ops |-> 0]
    /\ sessHist = [read |-> NoRead, mut |-> "__init__", mutAt |-> 1,
                   made |-> [n \in ToolInputs |-> 0]]

\* seconds between two readings of the clock by the incrementing threads
IncElapsed == {0, 1}

NextSession ==
    \/ \E t \in Threads : \E tool_name \in ToolInputs : IncBegin(t, tool_name)
    \/ \E t \in Threads : IncLock(t)
    \/ \E t \in Threads : IncCountRead(t)
    \/ \E t \in Threads : IncCountWrite(t)
    \/ \E t \in Threads : IncStatRead(t)
    \/ \E t \in Threads : IncStatWrite(t)
    \/ \E t \in Threads : \E d \in IncElapsed : IncTouch(t, now + d)
    \/ \E t \in Threads : IncUnlock(t)

SpecSession == InitSession /\ [][NextSession]_vars

(***************************************************************************)
(* One Session, its methods called one after the other.                    *)
(***************************************************************************)
NextSessionState ==
    \/ \E d \in SessElapsed : CallTouch(now + d)
    \/ \E d \in SessElapsed : \E project \in SessionProjects : CallSetActiveProject(project, now + d)
    \/ \E d \in SessElapsed : \E modes \in SessionModes : CallSetActiveModes(modes, now + d)
    \/ \E d \in SessElapsed : \E tool_name \in ToolInputs : CallIncrementToolCalls(tool_name, now + d)
    \/ \E d \in SessElapsed : CallDisconnect(now + d)
    \/ \E value \in StoredStates : CallStateSet(value)
    \/ \E d \in SessElapsed : CallStateGet(now + d)

SpecSessionState == InitSession /\ [][NextSessionState]_vars

(***************************************************************************)
(* Claims about Session                                                    *)
(***************************************************************************)
RECURSIVE SumOver(_, _)
SumOver(f, S) ==
    IF S = {} THEN 0
    ELSE LET x == CHOOSE y \in S : TRUE IN f[x] + SumOver(f, S \ {x})

AllReturned == \A t \in Threads : thr[t].pc = "idle"

\* C2: once every increment_tool_calls call of every thread has returned, the
\* session's total counter equals the number of calls made (T*K when each of
\* T threads made K calls) and each per-tool counter equals the number of
\* calls made with that tool name.
C2_ToolCallsCounted ==
    AllReturned =>
        /\ sess[S1].tool_call_count = SumOver(sessOps.calls, Threads)
        /\ sess[S1].tool_call_count = SumOver(sessHist.made, ToolInputs)
        /\ \A n \in ToolNames : sess[S1].tool_stats[n] = sessHist.made[n]

\* Both threads made all their calls, some under the same tool name.
C2_Witness ==
    /\ AllReturned
    /\ \A t \in Threads : sessOps.calls[t] = MaxCalls
    /\ sess[S1].tool_call_count = Cardinality(Threads) * MaxCalls
    /\ sess[S1].tool_stats["find_symbol"] >= 2
    /\ sessHist.made[NoneStr] >= 1

\* the mutators that call touch()
TouchingMutators ==
    {"touch", "set_active_project", "set_active_modes", "increment_tool_calls", "disconnect"}

\* C6: a read of Session.state returns IDLE exactly when the stored state is
\* CONNECTED or ACTIVE and more than 300 s passed since last_activity, and the
\* stored state otherwise; the read changes nothing (IDLE is never stored), a
\* DISCONNECTED session is never reported IDLE, and a read at the clock
\* reading of a touching mutator returns the stored state.
C6_IdleDerivedOnRead ==
    /\ sess[S1].state \in StoredStates
    /\ sessHist.read.valid =>
        LET r == sessHist.read IN
        /\ (r.value = IDLE) <=>
               /\ r.before.state \in {CONNECTED, ACTIVE}
               /\ r.at - r.before.last_activity > 300
        /\ r.value # IDLE => r.value = r.before.state
        /\ r.before.state = DISCONNECTED => r.value = DISCONNECTED
        /\ r.after = r.before
        /\ (r.prev \in TouchingMutators /\ r.at = r.prevAt) => r.value = r.before.state

\* A read 301 s after the last activity reported IDLE for a session stored ACTIVE.
C6_Witness ==
    /\ sessHist.read.valid
    /\ sessHist.read.value = IDLE
    /\ sessHist.read.before.state = ACTIVE
    /\ sessHist.read.at - sessHist.read.before.last_activity = IDLE_TIMEOUT_SECONDS + 1
    /\ sess[S1].state = ACTIVE

(***************************************************************************)
(* session.py: SessionManager and its SessionCleanup thread.  The wall     *)
(* clock advances between the steps; a call of the manager or of a session *)
(* is one critical section; the cleanup is taken statement by statement.   *)
(***************************************************************************)
CLEANUP_INTERVAL_SECONDS == 60
DISCONNECTED_RETENTION_SECONDS == 3600

MaxMgrOps == 3
MaxTicks == 3

SessionIds == <<"s1", "s2">>
SessionIdSet == {"s1", "s2"}
Cleanup == "SessionCleanup"
\* seconds the clock advances in one step
MgrElapsed == {1, CLEANUP_INTERVAL_SECONDS, DISCONNECTED_RETENTION_SECONDS - 1}

Contains(seq, x) == \E i \in 1..Len(seq) : seq[i] = x
Without(seq, x) == SelectSeq(seq, LAMBDA y : y # x)

\* str(uuid.uuid4()): an id no session has had
FreshId == SessionIds[Cardinality(DOMAIN sess) + 1]

CanLockManager(t) == mgrLock \in {NoThread, t}

\* get_session: the id of the registered session, or None
GetSession(session_id) ==
    IF Contains(sessions, session_id) THEN session_id ELSE NoneStr

ManagerCall ==
    /\ sessOps.ops < MaxMgrOps
    /\ sessOps' = [sessOps EXCEPT !.ops = @ + 1]
    /\ UNCHANGED <<now, mgrLock, thr, reaper, srv>>
    /\ UNCHANGED <<regVars, bridge, dash>>

CreateSession ==
    /\ Cardinality(DOMAIN sess) < Len(SessionIds)
    /\ CanLockManager(Caller)
    /\ sess' = [id \in DOMAIN sess \cup {FreshId} |->
                   IF id = FreshId THEN NewSession(FreshId, now) ELSE sess[id]]
    /\ sessions' = Append(sessions, FreshId)
    /\ sessHist' = [sessHist EXCEPT
           !.discAt = [id \in DOMAIN sess \cup {FreshId} |->
                          IF id = FreshId THEN NoneNum ELSE sessHist.discAt[id]]]
    /\ ManagerCall

DisconnectSession(session_id) ==
    /\ session_id \in DOMAIN sess
    /\ CanLockManager(Caller)
    /\ IF Contains(sessions, session_id)
       THEN /\ sess' = [sess EXCEPT ![session_id] = Disconnect(@, now)]
            /\ sessHist' = [sessHist EXCEPT !.discAt[session_id] = now]
       ELSE UNCHANGED <<sess, sessHist>>
    /\ UNCHANGED sessions
    /\ ManagerCall

\* A method of a Session called by a thread that holds a reference to it.
SessionMethod(session_id, after) ==
    /\ session_id \in DOMAIN sess
    /\ sess' = [sess EXCEPT ![session_id] = after]
    /\ sessHist' = [sessHist EXCEPT !.discAt[session_id] = NoneNum]
    /\ UNCHANGED sessions
    /\ ManagerCall

MethodSetActiveProject(session_id, project) ==
    /\ session_id \in DOMAIN sess
    /\ SessionMethod(session_id, SetActiveProject(sess[session_id], project, now))

MethodTouch(session_id) ==
    /\ session_id \in DOMAIN sess
    /\ SessionMethod(session_id, Touch(sess[session_id], now))

\* Time passes.  The cleanup thread is scheduled promptly: the clock does not
\* advance while its wait is over or its iteration runs.
Elapse(d) ==
    /\ sessOps.ticks < MaxTicks
    /\ reaper.pc = "waiting"
    /\ now < reaper.wakeAt
    /\ now' = now + d
    /\ sessOps' = [sessOps EXCEPT !.ticks = @ + 1]
    /\ UNCHANGED <<sess, sessions, mgrLock, thr, reaper, srv, sessHist>>
    /\ UNCHANGED <<regVars, bridge, dash>>

\* the selection of _cleanup_old_sessions  (lines 348-349)
Reapable_AtRetention(s, clock, t) ==
    /\ StateGet(s, clock).value = DISCONNECTED
    /\ t - s.last_activity >= DISCONNECTED_RETENTION_SECONDS

Reapable(s, clock, t) ==
    /\ StateGet(s, clock).value = DISCONNECTED
    /\ t - s.last_activity > DISCONNECTED_RETENTION_SECONDS

\* the wait is over; now = time.time(); with self._lock: to_remove = []
\* (lines 374, 343-346)
ReaperBegin ==
    /\ reaper.pc = "waiting"
    /\ now >= reaper.wakeAt
    /\ CanLockManager(Cleanup)
    /\ mgrLock' = Cleanup
    /\ reaper' = [reaper EXCEPT !.pc = IF sessions = <<>> THEN "deleting" ELSE "scanning",
                                !.now = now, !.idx = 1, !.to_remove = <<>>]
    /\ UNCHANGED <<now, sess, sessions, thr, srv, sessOps, sessHist>>
    /\ UNCHANGED <<regVars, bridge, dash>>

\* one iteration of the loop over self._sessions.items()  (lines 347-350)
ReaperScan ==
    /\ reaper.pc = "scanning"
    /\ LET id == sessions[reaper.idx] IN
       reaper' = [reaper EXCEPT
           !.pc = IF reaper.idx = Len(sessions) THEN "deleting" ELSE "scanning",
           !.idx = @ + 1,
           !.to_remove = IF Reapable(sess[id], now, reaper.now) THEN Append(@, id) ELSE @]
    /\ UNCHANGED <<now, sess, sessions, mgrLock, thr, srv, sessOps, sessHist>>
    /\ UNCHANGED <<regVars, bridge, dash>>

\* del self._sessions[session_id]  (lines 352-353)
ReaperDelete ==
    /\ reaper.pc = "deleting"
    /\ reaper.to_remove # <<>>
    /\ LET id == Head(reaper.to_remove) IN
       /\ sessions' = Without(sessions, id)
       /\ sessHist' = [sessHist EXCEPT !.reaped = @ \cup
              {[session_id |-> id, state |-> sess[id].state,
                last_activity |-> sess[id].last_activity, at |-> now,
                discAt |-> sessHist.discAt[id]]}]
    /\ reaper' = [reaper EXCEPT !.to_remove = Tail(@)]
    /\ UNCHANGED <<now, sess, mgrLock, thr, srv, sessOps>>
    /\ UNCHANGED <<regVars, bridge, dash>>

\* leaving `with self._lock`; self._shutdown_event.wait(60)  (lines 357, 374)
ReaperSleep ==
    /\ reaper.pc = "deleting"
    /\ reaper.to_remove = <<>>
    /\ mgrLock' = NoThread
    /\ reaper' = [reaper EXCEPT !.pc = "waiting", !.wakeAt = now + CLEANUP_INTERVAL_SECONDS]
    /\ sessHist' = [sessHist EXCEPT !.swept = reaper.now]
    /\ UNCHANGED <<now, sess, sessions, thr, srv, sessOps>>
    /\ UNCHANGED <<regVars, bridge, dash>>

\* SessionManager.__init__ and start_cleanup_thread
InitManager ==
    /\ now = 1
    /\ NoRegistry
    /\ NoBridge
    /\ NoDashboard
    /\ sess = <<>>
    /\ sessions = <<>>
    /\ mgrLock = NoThread
    /\ thr = <<>>
    /\ reaper = [pc |-> "waiting", wakeAt |-> 1, now |-> 1, idx |-> 1, to_remove |-> <<>>]
    /\ srv = <<>>
    /\ sessOps = [ops |-> 0, ticks |-> 0]
    /\ sessHist = [discAt |-> <<>>, reaped |-> {}, swept |-> NoneNum]

NextManager ==
    \/ CreateSession
    \/ \E id \in SessionIdSet : DisconnectSession(id)
    \/ \E id \in SessionIdSet : \E project \in SessionProjects : MethodSetActiveProject(id, project)
    \/ \E id \in SessionIdSet : MethodTouch(id)
    \/ \E d \in MgrElapsed : Elapse(d)
    \/ ReaperBegin
    \/ ReaperScan
    \/ ReaperDelete
    \/ ReaperSleep

SpecManager == InitManager /\ [][NextManager]_vars

(***************************************************************************)
(* Claims about the SessionCleanup thread                                  *)
(***************************************************************************)
\* C7: every session the cleanup removed was, when it was removed, stored
\* DISCONNECTED with a last_activity more than 3600 s old, whatever
\* create_session, disconnect_session and the sessions' mutators did meanwhile.
C7_ReaperRemovesOnlyExpired ==
    \A r \in sessHist.reaped :
        /\ r.state = DISCONNECTED
        /\ r.at - r.last_activity > 3600

\* the sessions disconnected through disconnect_session and not used since
Quiet == {id \in DOMAIN sess : sessHist.discAt[id] # NoneNum}

\* the cleanup thread waits, and its wait is not over
ReaperWaiting == reaper.pc = "waiting" /\ now < reaper.wakeAt

\* C8 (as stated): a session disconnected through disconnect_session at t0 is
\* DISCONNECTED and retrievable through get_session at t0 + 3599 s, and at
\* t0 + 3601 s the running cleanup thread has removed it.
C8_ReapedAt3601 ==
    \A id \in Quiet :
        /\ now - sessHist.discAt[id] = 3599 =>
               /\ GetSession(id) = id
               /\ StateGet(sess[id], now).value = DISCONNECTED
        /\ (now - sessHist.discAt[id] = 3601 /\ ReaperWaiting) => GetSession(id) = NoneStr

\* C8 (amended): a session disconnected through disconnect_session at t0 and
\* not used afterwards is DISCONNECTED and retrievable through get_session
\* until t0 + 3600 s, and it is gone once a cleanup iteration that read the
\* clock later than t0 + 3600 s has completed.
C8_RetainedThenReaped ==
    \A id \in Quiet :
        /\ now - sessHist.discAt[id] <= 3600 =>
               /\ GetSession(id) = id
               /\ StateGet(sess[id], now).value = DISCONNECTED
        /\ (sessHist.swept # NoneNum /\ sessHist.swept - sessHist.discAt[id] > 3600) =>
               GetSession(id) = NoneStr

\* The cleanup removed a session 3659 s after its disconnect_session: it was
\* still registered at the iteration 60 s earlier.
C8_Witness ==
    \E r \in sessHist.reaped :
        /\ r.discAt # NoneNum
        /\ r.state = DISCONNECTED
        /\ r.at - r.discAt > 3601
        /\ r.session_id \in Quiet
        /\ GetSession(r.session_id) = NoneStr
        /\ sessHist.swept = r.at

(***************************************************************************)
(* central_server.py: CentralizedSerenaServer.  execute_tool is taken      *)
(* statement by statement, by several threads; create_session and          *)
(* disconnect_session are one step each.                                   *)
(***************************************************************************)
SERVER_MAX_LIFECYCLE_EVENTS == 500

MaxExecCalls == 2
MaxDisconnects == 1
MaxLines == 2
MaxBeats == 1

TemplateAgent == "<template agent>"
NoRet == <<>>

\* LifecycleEvent of the server
ServerEvent(t, event_type, session_id, details) ==
    [timestamp |-> t, event_type |-> event_type, session_id |-> session_id,
     details |-> details]

\* _add_lifecycle_event
AddLifecycleEvent(events, ev) ==
    LET appended == Append(events, ev) IN
    IF Len(appended) > SERVER_MAX_LIFECYCLE_EVENTS
    THEN LastN(appended, SERVER_MAX_LIFECYCLE_EVENTS)
    ELSE appended

\* the return values of execute_tool
UnknownSessionError(session_id) == <<"Error: Unknown session ", session_id>>
DisconnectedError(session_id) == <<"Error: Session ", session_id, " is disconnected">>
ToolResult(tool_name) == <<"result of ", tool_name>>
ToolError(tool_name) == <<"Error: ", tool_name, " failed">>
LookupError(tool_name) == <<"Error: ", "no tool named ", tool_name>>
IsErrorText(ret) == Len(ret) > 0 /\ ret[1] = "Error: "

\* what happens inside the try block of execute_tool: the tool runs to its
\* result, the tool's own code raises, or agent.get_tool_by_name raises
ToolOutcomes == {"returns", "raises", "lookup_fails"}

\* Tool.apply_ex: with catch_exceptions set, an exception of the tool is caught
\* inside the invocation and comes back as a string with the Error: prefix
ApplyEx(tool_name, outcome, catch_exceptions) ==
    IF outcome = "returns"
    THEN [raised |-> FALSE, result |-> ToolResult(tool_name)]
    ELSE IF catch_exceptions
         THEN [raised |-> FALSE, result |-> ToolError(tool_name)]
         ELSE [raised |-> TRUE, result |-> ToolError(tool_name)]

\* the try block and its except clause  (lines 291-309): the success flag of
\* the tool_executed event and the string returned
TryApply(tool_name, outcome) ==
    IF outcome = "lookup_fails"
    THEN [success |-> FALSE, ret |-> LookupError(tool_name)]
    ELSE LET applied == ApplyEx(tool_name, outcome, TRUE) IN
         IF applied.raised
         THEN [success |-> FALSE, ret |-> applied.result]
         ELSE [success |-> TRUE, ret |-> applied.result]

\* what a call has done so far
NothingDone == [session_inc |-> 0, stats_inc |-> 0, invoked |-> 0, events |-> 0]

\* a thread outside execute_tool; its locals are those of its latest call
ExecIdle ==
    [pc |-> "idle", sid |-> NoneStr, tool |-> NoneStr, session |-> NoneStr,
     saw |-> NoneStr, agent |-> NoneStr, tmp |-> 0, did |-> NothingDone,
     outcome |-> NoneStr, logged |-> NoneStr, ret |-> NoRet]

\* threading.Lock
CanLockStats_Unlocked(t) == TRUE

CanLockStats(t) == srv.statsLock = NoThread

\* if session.state == SessionState.DISCONNECTED  (line 274)
RejectsState_Never(state) == FALSE

RejectsState(state) == state = DISCONNECTED

\* the call; session = self._session_manager.get_session(session_id)  (lines 256-272)
ExecGetSession(t, session_id, tool_name) ==
    /\ thr[t].pc = "idle"
    /\ sessOps.calls < MaxExecCalls
    /\ CanLockManager(t)
    /\ LET session == GetSession(session_id)
           call == [ExecIdle EXCEPT !.sid = session_id, !.tool = tool_name]
       IN IF session = NoneStr
          THEN thr' = [thr EXCEPT ![t] = [call EXCEPT !.ret = UnknownSessionError(session_id)]]
          ELSE thr' = [thr EXCEPT ![t] = [call EXCEPT !.pc = "check_state",
                                                      !.session = session]]
    /\ sessOps' = [sessOps EXCEPT !.calls = @ + 1]
    /\ UNCHANGED <<now, sess, sessions, mgrLock, reaper, srv, sessHist>>
    /\ UNCHANGED <<regVars, bridge, dash>>

\* if session.state == SessionState.DISCONNECTED  (lines 274-275)
ExecCheckState(t) ==
    /\ thr[t].pc = "check_state"
    /\ CanLockSession(sess[thr[t].session], t)
    /\ LET state == StateGet(sess[thr[t].session], now).value IN
       IF RejectsState(state)
       THEN thr' = [thr EXCEPT ![t].pc = "idle", ![t].saw = state,
                               ![t].ret = DisconnectedError(thr[t].sid)]
       ELSE thr' = [thr EXCEPT ![t].pc = "get_agent", ![t].saw = state]
    /\ UNCHANGED <<now, sess, sessions, mgrLock, reaper, srv, sessOps, sessHist>>
    /\ UNCHANGED <<regVars, bridge, dash>>

\* agent = self.get_session_agent(session_id), or the template agent  (lines 278-282)
ExecGetAgent(t) ==
    /\ thr[t].pc = "get_agent"
    /\ thr' = [thr EXCEPT ![t].pc = "increment",
                          ![t].agent = IF thr[t].sid \in srv.agents
                                       THEN thr[t].sid ELSE TemplateAgent]
    /\ UNCHANGED <<now, sess, sessions, mgrLock, reaper, srv, sessOps, sessHist>>
    /\ UNCHANGED <<regVars, bridge, dash>>

\* session.increment_tool_calls(tool_name)  (line 285)
ExecIncrement(t) ==
    /\ thr[t].pc = "increment"
    /\ CanLockSession(sess[thr[t].session], t)
    /\ sess' = [sess EXCEPT ![thr[t].session] = IncrementToolCalls(@, thr[t].tool, now)]
    /\ thr' = [thr EXCEPT ![t].pc = "stats_read", ![t].did.session_inc = @ + 1]
    /\ UNCHANGED <<now, sessions, mgrLock, reaper, srv, sessOps, sessHist>>
    /\ UNCHANGED <<regVars, bridge, dash>>

\* with self._stats_lock: self._stats.total_tool_calls += 1, the read  (lines 287-288)
ExecStatsRead(t) ==
    /\ thr[t].pc = "stats_read"
    /\ CanLockStats(t)
    /\ srv' = [srv EXCEPT !.statsLock = t]
    /\ thr' = [thr EXCEPT ![t].pc = "stats_write", ![t].tmp = srv.total_tool_calls]
    /\ UNCHANGED <<now, sess, sessions, mgrLock, reaper, sessOps, sessHist>>
    /\ UNCHANGED <<regVars, bridge, dash>>

\* self._stats.total_tool_calls += 1, the write; the lock is released  (line 288)
ExecStatsWrite(t) ==
    /\ thr[t].pc = "stats_write"
    /\ srv' = [srv EXCEPT !.statsLock = NoThread, !.total_tool_calls = thr[t].tmp + 1]
    /\ thr' = [thr EXCEPT ![t].pc = "apply", ![t].did.stats_inc = @ + 1]
    /\ UNCHANGED <<now, sess, sessions, mgrLock, reaper, sessOps, sessHist>>
    /\ UNCHANGED <<regVars, bridge, dash>>

\* the tool is looked up and applied; the tool_executed event  (lines 291-309)
ExecApply(t, outcome) ==
    /\ thr[t].pc = "apply"
    /\ LET done == TryApply(thr[t].tool, outcome)
           ev == ServerEvent(now, "tool_executed", thr[t].sid,
                             [tool_name |-> thr[t].tool, success |-> done.success])
       IN /\ srv' = [srv EXCEPT !.events = AddLifecycleEvent(@, ev)]
          /\ thr' = [thr EXCEPT ![t].pc = "idle", ![t].did.invoked = @ + 1,
                                ![t].did.events = @ + 1, ![t].tmp = 0,
                                ![t].outcome = outcome, ![t].logged = ev,
                                ![t].ret = done.ret]
    /\ sessHist' = [sessHist EXCEPT !.served[thr[t].sid][thr[t].tool] = @ + 1]
    /\ UNCHANGED <<now, sess, sessions, mgrLock, reaper, sessOps>>
    /\ UNCHANGED <<regVars, bridge, dash>>

\* CentralizedSerenaServer.create_session, run to completion  (lines 183-217)
ServerCreateSession ==
    /\ Cardinality(DOMAIN sess) < Len(SessionIds)
    /\ CanLockManager(Caller)
    /\ sess' = [id \in DOMAIN sess \cup {FreshId} |->
                   IF id = FreshId
                   THEN SetActiveModes(NewSession(FreshId, now), <<"editing">>, now)
                   ELSE sess[id]]
    /\ sessions' = Append(sessions, FreshId)
    /\ srv' = [srv EXCEPT
           !.agents = @ \cup {FreshId},
           !.total_sessions_created = @ + 1,
           !.events = AddLifecycleEvent(@,
               ServerEvent(now, "session_created", FreshId, [client_name |-> NoneStr]))]
    /\ UNCHANGED <<now, mgrLock, thr, reaper, sessOps, sessHist>>
    /\ UNCHANGED <<regVars, bridge, dash>>

\* CentralizedSerenaServer.disconnect_session, run to completion  (lines 228-254)
ServerDisconnectSession(session_id) ==
    /\ sessOps.ops < MaxDisconnects
    /\ CanLockManager(Caller)
    /\ GetSession(session_id) # NoneStr
    /\ CanLockSession(sess[session_id], Caller)
    /\ sess' = [sess EXCEPT ![session_id] = Disconnect(@, now)]
    /\ srv' = [srv EXCEPT
           !.agents = @ \ {session_id},
           !.events = AddLifecycleEvent(@,
               ServerEvent(now, "session_disconnected", session_id, <<>>))]
    /\ sessOps' = [sessOps EXCEPT !.ops = @ + 1]
    /\ UNCHANGED <<now, sessions, mgrLock, thr, reaper, sessHist>>
    /\ UNCHANGED <<regVars, bridge, dash>>

\* CentralizedSerenaServer.__init__
InitServer ==
    /\ now = 1
    /\ NoRegistry
    /\ NoBridge
    /\ NoDashboard
    /\ sess = <<>>
    /\ sessions = <<>>
    /\ mgrLock = NoThread
    /\ thr = [t \in Threads |-> ExecIdle]
    /\ reaper = <<>>
    /\ srv = [agents |-> {}, total_tool_calls |-> 0, total_sessions_created |-> 0,
              statsLock |-> NoThread, events |-> <<>>]
    /\ sessOps = [calls |-> 0, ops |-> 0]
    /\ sessHist = [served |-> [id \in SessionIdSet |-> [n \in ToolNames |-> 0]]]

\* the tools of these calls run to their result or cannot be found; a tool
\* that raises is dispatched in SpecContexts
ServedOutcomes == {"returns", "lookup_fails"}

NextServer ==
    \/ \E t \in Threads : \E id \in SessionIdSet : \E tool_name \in ToolNames :
           ExecGetSession(t, id, tool_name)
    \/ \E t \in Threads : ExecCheckState(t)
    \/ \E t \in Threads : ExecGetAgent(t)
    \/ \E t \in Threads : ExecIncrement(t)
    \/ \E t \in Threads : ExecStatsRead(t)
    \/ \E t \in Threads : ExecStatsWrite(t)
    \/ \E t \in Threads : \E outcome \in ServedOutcomes : ExecApply(t, outcome)
    \/ ServerCreateSession
    \/ \E id \in SessionIdSet : ServerDisconnectSession(id)

SpecServer == InitServer /\ [][NextServer]_vars

(***************************************************************************)
(* Claims about execute_tool                                               *)
(***************************************************************************)
AllExecReturned == \A t \in Threads : thr[t].pc = "idle"

ToolExecutedEvents == SelectSeq(srv.events, LAMBDA ev : ev.event_type = "tool_executed")

RECURSIVE SumServed(_)
SumServed(ids) ==
    IF ids = {} THEN 0
    ELSE LET id == CHOOSE x \in ids : TRUE
         IN SumOver(sessHist.served[id], ToolNames) + SumServed(ids \ {id})

RECURSIVE SumToolCalls(_)
SumToolCalls(ids) ==
    IF ids = {} THEN 0
    ELSE LET id == CHOOSE x \in ids : TRUE
         IN sess[id].tool_call_count + SumToolCalls(ids \ {id})

\* C9: an execute_tool call that found no session returned "Error: Unknown
\* session <id>", one that read the state DISCONNECTED returned "Error: Session
\* <id> is disconnected"; such a call incremented no counter of the session or
\* of the server, invoked no tool and recorded no event, so that once all calls
\* have returned the server's total and the tool_executed events count the
\* calls that were not rejected.
C9_RejectedCallsChangeNothing ==
    /\ \A t \in Threads :
           (thr[t].pc = "idle" /\ thr[t].ret # NoRet) =>
               /\ thr[t].session = NoneStr =>
                      thr[t].ret = <<"Error: Unknown session ", thr[t].sid>>
               /\ thr[t].saw = DISCONNECTED =>
                      thr[t].ret = <<"Error: Session ", thr[t].sid, " is disconnected">>
               /\ (thr[t].session = NoneStr \/ thr[t].saw = DISCONNECTED) =>
                      thr[t].did = [session_inc |-> 0, stats_inc |-> 0,
                                    invoked |-> 0, events |-> 0]
    /\ AllExecReturned =>
           /\ srv.total_tool_calls = SumServed(SessionIdSet)
           /\ Len(ToolExecutedEvents) = SumServed(SessionIdSet)

\* One call was rejected for an unknown session and one for a disconnected session.
C9_Witness ==
    /\ AllExecReturned
    /\ thr["t1"].ret = <<"Error: Unknown session ", "s2">>
    /\ thr["t2"].ret = <<"Error: Session ", "s1", " is disconnected">>
    /\ sess["s1"].state = DISCONNECTED
    /\ srv.total_tool_calls = 0
    /\ ToolExecutedEvents = <<>>

\* calls that have incremented the session's counters and not returned yet
InFlight(id, n) ==
    Cardinality({t \in Threads : /\ thr[t].pc \in {"stats_read", "stats_write", "apply"}
                                 /\ thr[t].session = id
                                 /\ thr[t].tool = n})

\* C10: each session's per-tool counter equals the number of calls for that
\* session and tool that were not rejected, its total is their sum (so a call
\* adds one to its own session's counters and nothing to another's), and once
\* all calls have returned the server's total_tool_calls equals the sum of the
\* sessions' totals.
C10_CountersPerSession ==
    /\ \A id \in DOMAIN sess :
           /\ \A n \in ToolNames :
                  sess[id].tool_stats[n] = sessHist.served[id][n] + InFlight(id, n)
           /\ sess[id].tool_call_count = SumOver(sess[id].tool_stats, ToolNames)
    /\ AllExecReturned => srv.total_tool_calls = SumToolCalls(DOMAIN sess)

\* Two threads dispatched the same tool to two sessions.
C10_Witness ==
    /\ AllExecReturned
    /\ thr["t1"].sid = "s1" /\ thr["t2"].sid = "s2"
    /\ DOMAIN sess = {"s1", "s2"}
    /\ sess["s1"].tool_stats["find_symbol"] = 1
    /\ sess["s2"].tool_stats["find_symbol"] = 1
    /\ sess["s1"].tool_call_count = 1
    /\ sess["s2"].tool_call_count = 1
    /\ srv.total_tool_calls = 2


\* a call that reached the try block of execute_tool and has returned
Applied(t) == thr[t].pc = "idle" /\ thr[t].did.invoked = 1

\* C11: when the tool invoked by execute_tool raises, execute_tool returns a
\* string starting with "Error:" and the tool_executed event of the call has
\* success = false; when the tool succeeds the event has success = true.
C11_ToolFailureRecorded ==
    \A t \in Threads :
        Applied(t) =>
            /\ thr[t].logged.event_type = "tool_executed"
            /\ thr[t].logged.details.tool_name = thr[t].tool
            /\ thr[t].outcome = "raises" =>
                   /\ IsErrorText(thr[t].ret)
                   /\ thr[t].logged.details.success = FALSE
            /\ thr[t].outcome = "returns" =>
                   /\ thr[t].ret = ToolResult(thr[t].tool)
                   /\ thr[t].logged.details.success = TRUE

(***************************************************************************)
(* create_session and disconnect_session step by step, against a thread    *)
(* that executes tools                                                     *)
(***************************************************************************)
\* CentralizedSerenaServer.create_session: the session is registered in the
\* SessionManager and given the default modes  (lines 190-193)
CreateSessionRegister(t) ==
    /\ thr[t].pc = "idle"
    /\ Cardinality(DOMAIN sess) < Len(SessionIds)
    /\ CanLockManager(t)
    /\ sess' = [id \in DOMAIN sess \cup {FreshId} |->
                   IF id = FreshId
                   THEN SetActiveModes(NewSession(FreshId, now), <<"editing">>, now)
                   ELSE sess[id]]
    /\ sessions' = Append(sessions, FreshId)
    /\ thr' = [thr EXCEPT ![t] = [ExecIdle EXCEPT !.pc = "create_agent", !.sid = FreshId]]
    /\ UNCHANGED <<now, mgrLock, reaper, srv, sessOps, sessHist>>
    /\ UNCHANGED <<regVars, bridge, dash>>

\* with self._session_agents_lock: the agent is constructed and stored, or its
\* constructor raises and create_session ends there  (lines 197-205)
CreateSessionAgent(t, constructed) ==
    /\ thr[t].pc = "create_agent"
    /\ IF constructed
       THEN /\ srv' = [srv EXCEPT !.agents = @ \cup {thr[t].sid}]
            /\ thr' = [thr EXCEPT ![t].pc = "create_record"]
       ELSE /\ srv' = srv
            /\ thr' = [thr EXCEPT ![t].pc = "idle", ![t].outcome = "raises"]
    /\ UNCHANGED <<now, sess, sessions, mgrLock, reaper, sessOps, sessHist>>
    /\ UNCHANGED <<regVars, bridge, dash>>

\* total_sessions_created and the session_created event  (lines 207-217)
CreateSessionRecord(t) ==
    /\ thr[t].pc = "create_record"
    /\ CanLockStats(t)
    /\ srv' = [srv EXCEPT
           !.total_sessions_created = @ + 1,
           !.events = AddLifecycleEvent(@,
               ServerEvent(now, "session_created", thr[t].sid, [client_name |-> NoneStr]))]
    /\ thr' = [thr EXCEPT ![t].pc = "idle", ![t].outcome = "returns"]
    /\ UNCHANGED <<now, sess, sessions, mgrLock, reaper, sessOps, sessHist>>
    /\ UNCHANGED <<regVars, bridge, dash>>

\* CentralizedSerenaServer.disconnect_session: get_session, then the agent is
\* popped and shut down  (lines 235-246)
DisconnectSessionPop(t, session_id) ==
    /\ thr[t].pc = "idle"
    /\ sessOps.ops < MaxDisconnects
    /\ CanLockManager(t)
    /\ IF GetSession(session_id) = NoneStr
       THEN /\ thr' = [thr EXCEPT ![t] = [ExecIdle EXCEPT !.sid = session_id,
                                                          !.outcome = "not_found"]]
            /\ srv' = srv
       ELSE /\ thr' = [thr EXCEPT ![t] = [ExecIdle EXCEPT !.pc = "disconnect",
                                                          !.sid = session_id]]
            /\ srv' = [srv EXCEPT !.agents = @ \ {session_id}]
    /\ sessOps' = [sessOps EXCEPT !.ops = @ + 1]
    /\ UNCHANGED <<now, sess, sessions, mgrLock, reaper, sessHist>>
    /\ UNCHANGED <<regVars, bridge, dash>>

\* self._session_manager.disconnect_session and the session_disconnected
\* event  (lines 248-254)
DisconnectSessionMark(t) ==
    /\ thr[t].pc = "disconnect"
    /\ CanLockManager(t)
    /\ IF GetSession(thr[t].sid) = NoneStr
       THEN sess' = sess
       ELSE /\ CanLockSession(sess[thr[t].sid], t)
            /\ sess' = [sess EXCEPT ![thr[t].sid] = Disconnect(@, now)]
    /\ srv' = [srv EXCEPT !.events = AddLifecycleEvent(@,
                  ServerEvent(now, "session_disconnected", thr[t].sid, <<>>))]
    /\ thr' = [thr EXCEPT ![t].pc = "idle", ![t].outcome = "disconnected"]
    /\ UNCHANGED <<now, sessions, mgrLock, reaper, sessOps, sessHist>>
    /\ UNCHANGED <<regVars, bridge, dash>>

\* the thread that executes tools and the thread that manages sessions
Client == "t1"
Admin == "t2"

NextContexts ==
    \/ \E id \in SessionIdSet : \E tool_name \in ToolNames :
           ExecGetSession(Client, id, tool_name)
    \/ ExecCheckState(Client)
    \/ ExecGetAgent(Client)
    \/ ExecIncrement(Client)
    \/ ExecStatsRead(Client)
    \/ ExecStatsWrite(Client)
    \/ \E outcome \in ToolOutcomes : ExecApply(Client, outcome)
    \/ CreateSessionRegister(Admin)
    \/ \E constructed \in BOOLEAN : CreateSessionAgent(Admin, constructed)
    \/ CreateSessionRecord(Admin)
    \/ \E id \in SessionIdSet : DisconnectSessionPop(Admin, id)
    \/ DisconnectSessionMark(Admin)

SpecContexts == InitServer /\ [][NextContexts]_vars


\* the sessions for which disconnect_session of the server has run to its end
ServerDisconnected ==
    {srv.events[i].session_id :
        i \in {k \in DOMAIN srv.events : srv.events[k].event_type = "session_disconnected"}}

\* C12: a session registered in the SessionManager and not DISCONNECTED has an
\* entry in the map from session ids to agents, in every state another thread
\* can observe; a session disconnected through disconnect_session has none.
C12_OneContextPerLiveSession ==
    \A id \in DOMAIN sess :
        /\ (Contains(sessions, id) /\ sess[id].state # DISCONNECTED) => id \in srv.agents
        /\ id \in ServerDisconnected => id \notin srv.agents

\* the tools that change the workspace
MutatingTools == {"replace_symbol_body"}

\* C13: a call of execute_tool that found no agent for a known session that is
\* not disconnected does not run a mutating tool against the template agent; it
\* returns an error.
C13_NoMutationOnTemplate ==
    \A t \in Threads :
        (/\ thr[t].pc = "idle"
         /\ thr[t].agent = TemplateAgent
         /\ thr[t].saw # DISCONNECTED
         /\ thr[t].tool \in MutatingTools)
        => /\ thr[t].did.invoked = 0
           /\ IsErrorText(thr[t].ret)


(***************************************************************************)
(* The stdio bridge (mcp_proxy.py).  One main thread connects, then reads   *)
(* stdin line by line; a daemon thread sends heartbeats.  A request to the  *)
(* server is one step whose outcome is the server's and the network's       *)
(* choice.                                                                  *)
(***************************************************************************)
RequestId == "req-7"
SuppliedIds == {NoneStr, "s-old"}
CreatedId == "s-new"

\* the lines of stdin: blank, not JSON, JSON that is no object, or an object
Methods == {"initialize", "tools/list", "tools/call", "prompts/get", "prompts/list",
            "resources/list", "notifications/initialized", "no/such/method"}
Message(has_id, method, name) ==
    [kind |-> "object", has_id |-> has_id, method |-> method, name |-> name]
BlankLine == [kind |-> "blank", has_id |-> FALSE, method |-> NoneStr, name |-> NoneStr]
GarbageLine == [kind |-> "invalid", has_id |-> FALSE, method |-> NoneStr, name |-> NoneStr]
ArrayLine == [kind |-> "array", has_id |-> FALSE, method |-> NoneStr, name |-> NoneStr]
StdinLines ==
    {BlankLine, GarbageLine, ArrayLine}
    \cup {Message(has_id, method, NoneStr) : has_id \in BOOLEAN, method \in Methods}
    \cup {Message(has_id, "tools/call", "find_symbol") : has_id \in BOOLEAN}

\* request.get("id")
IdOf(request) == IF request.has_id THEN RequestId ELSE NoneStr

\* what requests.request, raise_for_status and response.json() come to
HttpOutcomes == {"ok", "connection_error", "timeout", "http_error", "invalid_json"}

Request(method, path, session_id) ==
    [method |-> method, path |-> path, header |-> session_id]

\* _make_request: the parsed body, or MCPProxyError with its message
MakeRequest(outcome) ==
    CASE outcome = "ok" -> [raised |-> FALSE, message |-> <<>>]
      [] outcome = "connection_error" ->
            [raised |-> TRUE, message |-> <<"Cannot connect to server">>]
      [] outcome = "timeout" -> [raised |-> TRUE, message |-> <<"Request timed out">>]
      [] outcome = "http_error" -> [raised |-> TRUE, message |-> <<"HTTP error">>]
      [] outcome = "invalid_json" ->
            [raised |-> TRUE, message |-> <<"Invalid JSON response from server">>]

\* the JSON-RPC messages written to stdout
NoResponse == <<>>
ResultResponse(id, result) == [id |-> id, kind |-> "result", body |-> result]
ErrorResponse(id, code, message) ==
    [id |-> id, kind |-> "error", body |-> [code |-> code, message |-> message]]
ToolContent(text, is_error) == [content |-> text, isError |-> is_error]

\* what handling one request comes to: the response, the requests sent to the
\* server, the tool cache, and whether an exception left the handler
Handled(response, sent, tools, raised) ==
    [response |-> response, sent |-> sent, tools |-> tools, raised |-> raised]

HandleInitialize(b, request) ==
    Handled(ResultResponse(IdOf(request), "serena-proxy"), <<>>, b.tools, FALSE)

\* _handle_list_tools; _load_tools does not catch MCPProxyError
HandleListTools(b, request, outcome) ==
    IF b.tools # {}
    THEN Handled(ResultResponse(IdOf(request), b.tools), <<>>, b.tools, FALSE)
    ELSE LET sent == <<Request("GET", <<"tools">>, b.session_id)>>
             got == MakeRequest(outcome)
         IN IF got.raised
            THEN Handled(NoResponse, sent, b.tools, TRUE)
            ELSE Handled(ResultResponse(IdOf(request), ToolNames), sent, ToolNames, FALSE)

\* the except clause of _handle_call_tool
CallToolFailure_AsError(id, message) == ErrorResponse(id, -32603, message)

CallToolFailure(id, message) ==
    ResultResponse(id, ToolContent(<<"Proxy error: ">> \o message, TRUE))

HandleCallTool(b, request, outcome) ==
    IF request.name = NoneStr
    THEN Handled(ErrorResponse(IdOf(request), -32602, <<"Missing tool name">>),
                 <<>>, b.tools, FALSE)
    ELSE LET sent == <<Request("POST", <<"sessions", b.session_id, "tools", request.name>>,
                               b.session_id)>>
             got == MakeRequest(outcome)
         IN IF got.raised
            THEN Handled(CallToolFailure(IdOf(request), got.message), sent, b.tools, FALSE)
            ELSE Handled(ResultResponse(IdOf(request),
                                        ToolContent(ToolResult(request.name), FALSE)),
                         sent, b.tools, FALSE)

HandleGetPrompt(b, request, outcome) ==
    LET sent == <<Request("GET", <<"sessions", b.session_id, "prompt">>, b.session_id)>>
        got == MakeRequest(outcome)
    IN IF got.raised
       THEN Handled(ErrorResponse(IdOf(request), -32603, got.message), sent, b.tools, FALSE)
       ELSE Handled(ResultResponse(IdOf(request), "prompt"), sent, b.tools, FALSE)

\* if "id" not in request
IsNotification_Never(request) == FALSE

IsNotification(request) == ~request.has_id

\* _process_request; a message that is no object has no get()
ProcessRequest(b, request, outcome) ==
    IF request.kind # "object" THEN Handled(NoResponse, <<>>, b.tools, TRUE)
    ELSE IF IsNotification(request) THEN Handled(NoResponse, <<>>, b.tools, FALSE)
    ELSE CASE request.method = "initialize" -> HandleInitialize(b, request)
           [] request.method = "tools/list" -> HandleListTools(b, request, outcome)
           [] request.method = "tools/call" -> HandleCallTool(b, request, outcome)
           [] request.method = "prompts/get" -> HandleGetPrompt(b, request, outcome)
           [] request.method = "prompts/list" ->
                 Handled(ResultResponse(IdOf(request), <<>>), <<>>, b.tools, FALSE)
           [] request.method = "resources/list" ->
                 Handled(ResultResponse(IdOf(request), <<>>), <<>>, b.tools, FALSE)
           [] OTHER ->
                 Handled(ErrorResponse(IdOf(request), -32601,
                                       <<"Method not found: ", request.method>>),
                         <<>>, b.tools, FALSE)

\* what the main thread did with the latest line
NoLine == [line |-> BlankLine, wrote |-> <<>>, sent |-> <<>>, outcome |-> NoneStr,
           raised |-> FALSE]

Bridge(supplied) ==
    [pc |-> IF TruthyStr(supplied) THEN "restore" ELSE "create",
     supplied |-> supplied, session_id |-> supplied, tools |-> {}, shutdown |-> FALSE,
     written |-> 0, sent |-> <<>>, lines |-> 0, beats |-> 0, last |-> NoLine]

\* disconnect(): the shutdown event, and DELETE if there is a session id; an
\* MCPProxyError of the DELETE is logged
BridgeDisconnect(b) ==
    [b EXCEPT !.pc = "stopped", !.shutdown = TRUE,
              !.sent = IF TruthyStr(b.session_id)
                       THEN Append(@, Request("DELETE", <<"sessions", b.session_id>>,
                                              b.session_id))
                       ELSE @]

\* connect(), first half: GET /sessions/{sid} for a supplied id  (lines 118-126)
ConnectRestore(outcome) ==
    /\ bridge.pc = "restore"
    /\ LET asked == [bridge EXCEPT !.sent = Append(@,
                        Request("GET", <<"sessions", bridge.session_id>>, bridge.session_id))]
       IN IF MakeRequest(outcome).raised
          THEN bridge' = [asked EXCEPT !.pc = "create", !.session_id = NoneStr]
          ELSE bridge' = [asked EXCEPT !.pc = "reading"]
    /\ UNCHANGED <<now, regVars, sessVars, dash>>

\* the id stored after POST /sessions
StoredId_Supplied(supplied, created) == supplied

StoredId(supplied, created) == created

\* connect(), second half: POST /sessions  (lines 128-137); an MCPProxyError
\* here ends run() through its except clause and disconnect()
ConnectCreate(outcome) ==
    /\ bridge.pc = "create"
    /\ LET asked == [bridge EXCEPT !.sent = Append(@,
                        Request("POST", <<"sessions">>, bridge.session_id))]
       IN IF MakeRequest(outcome).raised
          THEN bridge' = BridgeDisconnect(asked)
          ELSE bridge' = [asked EXCEPT !.pc = "reading",
                                       !.session_id = StoredId(bridge.supplied, CreatedId)]
    /\ UNCHANGED <<now, regVars, sessVars, dash>>

\* one turn of the main loop of run(): _read_messages yields the next line's
\* message, _process_request handles it, _write_message prints the response;
\* an exception leaving the handler ends run() through disconnect()
BridgeLine(line, outcome) ==
    /\ bridge.pc = "reading"
    /\ bridge.lines < MaxLines
    /\ LET read == [bridge EXCEPT !.lines = @ + 1] IN
       IF line.kind \in {"blank", "invalid"}
       THEN bridge' = [read EXCEPT !.last = [NoLine EXCEPT !.line = line]]
       ELSE LET done == ProcessRequest(bridge, line, outcome)
                wrote == IF done.raised \/ done.response = NoResponse
                         THEN <<>> ELSE <<done.response>>
                after == [read EXCEPT
                             !.tools = done.tools,
                             !.sent = @ \o done.sent,
                             !.written = @ + Len(wrote)]
                ended == IF done.raised THEN BridgeDisconnect(after) ELSE after
            IN bridge' = [ended EXCEPT
                   !.last = [line |-> line, wrote |-> wrote,
                             sent |-> SubSeq(ended.sent, Len(bridge.sent) + 1, Len(ended.sent)),
                             outcome |-> IF done.sent = <<>> THEN NoneStr ELSE outcome,
                             raised |-> done.raised]]
    /\ UNCHANGED <<now, regVars, sessVars, dash>>

\* stdin is closed: the loop ends and run() disconnects
BridgeEof ==
    /\ bridge.pc = "reading"
    /\ bridge' = BridgeDisconnect(bridge)
    /\ UNCHANGED <<now, regVars, sessVars, dash>>

\* one turn of _heartbeat_loop; the thread is started after connect()
BridgeHeartbeat(outcome) ==
    /\ bridge.pc = "reading"
    /\ ~bridge.shutdown
    /\ bridge.beats < MaxBeats
    /\ bridge' = [bridge EXCEPT
           !.beats = @ + 1,
           !.sent = Append(@, Request("POST", <<"sessions", bridge.session_id, "heartbeat">>,
                                      bridge.session_id))]
    /\ UNCHANGED <<now, regVars, sessVars, dash>>

InitBridge ==
    /\ now = 1
    /\ NoRegistry
    /\ NoServer
    /\ NoDashboard
    /\ \E supplied \in SuppliedIds : bridge = Bridge(supplied)

NextBridge ==
    \E outcome \in HttpOutcomes :
        \/ ConnectRestore(outcome)
        \/ ConnectCreate(outcome)
        \/ \E line \in StdinLines : BridgeLine(line, outcome)
        \/ BridgeEof
        \/ BridgeHeartbeat(outcome)

SpecBridge == InitBridge /\ [][NextBridge]_vars

\* C14: for every line read by the bridge at most one response is written to
\* stdout; a message without an id field produces no output and makes the
\* bridge send no HTTP request, whatever its method.
C14_AtMostOneResponse ==
    /\ Len(bridge.last.wrote) <= 1
    /\ bridge.written <= bridge.lines
    /\ (bridge.last.line.kind = "object" /\ ~bridge.last.line.has_id) =>
           /\ bridge.last.wrote = <<>>
           /\ bridge.last.sent = <<>>

C14_Witness ==
    /\ bridge.lines = 2
    /\ bridge.written = 1
    /\ bridge.last.line = Message(FALSE, "tools/call", "find_symbol")
    /\ bridge.last.sent = <<>>
    /\ bridge.pc = "reading"


\* the outcomes of a request that _make_request turns into MCPProxyError
TransportFailures == HttpOutcomes \ {"ok"}

\* the latest line was a tools/call request naming a tool
CalledTool ==
    /\ bridge.lines > 0
    /\ bridge.last.line.kind = "object"
    /\ bridge.last.line.has_id
    /\ bridge.last.line.method = "tools/call"
    /\ bridge.last.line.name # NoneStr

\* C15: a transport failure of a tools/call naming a tool (connection error,
\* timeout, HTTP error status, invalid JSON) is answered with a JSON-RPC result
\* whose text starts with "Proxy error:" and whose isError is true, never with
\* a JSON-RPC error object, and the bridge goes on reading.
C15_TransportFailureIsToolResult ==
    (CalledTool /\ bridge.last.outcome \in TransportFailures) =>
        /\ Len(bridge.last.wrote) = 1
        /\ ~bridge.last.raised
        /\ LET response == bridge.last.wrote[1] IN
               /\ response.kind = "result"
               /\ response.id = RequestId
               /\ response.body.isError = TRUE
               /\ response.body.content[1] = "Proxy error: "
               /\ response.body.content = <<"Proxy error: ">> \o MakeRequest(bridge.last.outcome).message

C15_Witness ==
    /\ CalledTool
    /\ bridge.last.outcome = "invalid_json"
    /\ bridge.lines = 2
    /\ bridge.written = 2
    /\ bridge.last.wrote[1].body.isError = TRUE
    /\ bridge.pc = "reading"


\* the session id a request names in its path, if it names one
PathSession(request) ==
    IF Len(request.path) >= 2 /\ request.path[1] = "sessions"
    THEN request.path[2] ELSE NoneStr

\* connect() was started with a session id, its GET failed and its POST has
\* been sent
Recreated ==
    /\ TruthyStr(bridge.supplied)
    /\ Len(bridge.sent) >= 2
    /\ bridge.sent[2] = Request("POST", <<"sessions">>, NoneStr)

\* C16: started with a session id, the bridge first sends GET /sessions/{sid};
\* when that fails (404 or a transport failure) it sends POST /sessions, stores
\* the id returned, and every later tools/call, prompts/get, heartbeat and the
\* final DELETE name the new id.
C16_ReconnectUsesNewId ==
    /\ (TruthyStr(bridge.supplied) /\ bridge.pc # "restore") =>
           bridge.sent[1] = Request("GET", <<"sessions", bridge.supplied>>, bridge.supplied)
    /\ (TruthyStr(bridge.supplied) /\ bridge.pc = "create") => Len(bridge.sent) = 1
    /\ Recreated =>
           /\ bridge.pc = "reading" => bridge.session_id = CreatedId
           /\ \A i \in 3..Len(bridge.sent) :
                  /\ bridge.sent[i].header = CreatedId
                  /\ PathSession(bridge.sent[i]) \in {NoneStr, CreatedId}
                  /\ bridge.sent[i].method = "DELETE" => PathSession(bridge.sent[i]) = CreatedId

C16_Witness ==
    /\ Recreated
    /\ bridge.pc = "stopped"
    /\ Len(bridge.sent) = 6
    /\ bridge.sent[3] = Request("POST", <<"sessions", CreatedId, "tools", "find_symbol">>, CreatedId)
    /\ bridge.sent[4] = Request("POST", <<"sessions", CreatedId, "heartbeat">>, CreatedId)
    /\ bridge.sent[5] = Request("GET", <<"sessions", CreatedId, "prompt">>, CreatedId)
    /\ bridge.sent[6] = Request("DELETE", <<"sessions", CreatedId>>, CreatedId)


(***************************************************************************)
(* The fleet dashboard (global_dashboard.py): one process with a heartbeat  *)
(* checker thread and a prune thread over the instance registry.  Each      *)
(* registry call is one step (it runs under the registry's file lock); a    *)
(* wait of a thread ends when the clock reaches the end of the wait, and    *)
(* the clock moves from one such end to the next.  Whether an instance      *)
(* answers GET /heartbeat is its own affair.                                *)
(***************************************************************************)
HEARTBEAT_CHECK_INTERVAL == 5
PRUNE_CHECK_INTERVAL == 60

MaxFlips == 2
MaxFlipTime == 11

\* instances die and recover up to MaxFlipTime; the clock stops once every
\* instance that could die has been pruned
Horizon ==
    MaxFlipTime + HEARTBEAT_CHECK_INTERVAL + ZOMBIE_TIMEOUT_SECONDS
        + 2 * PRUNE_CHECK_INTERVAL

fleetFrame == <<tmpfile, lockHolder, rpc, rloc, opsStarted, serial, hist, sessVars, bridge>>

\* a registry method called by the dashboard: load, change, save
RegistryDo(f, op, t) ==
    LET out == ApplyOp(op, Load(f), t)
    IN IF out.save THEN Renamed(JsonFile(Trim(out.data))) ELSE f

\* list_instances() and get_instance(pid)
ListInstances(f) ==
    LET insts == Load(f).instances IN [i \in 1..Len(insts) |-> insts[i].info]
Registered(pid) == HasKey(Load(file).instances, pid)
Instance(pid) == GetInst(Load(file).instances, pid)
EventsOf(pid, type) ==
    SelectSeq(Load(file).lifecycle_events,
              LAMBDA e : e.pid = pid /\ e.event_type = type)

DocFleet == WholeOp(Op("register", 2222, RegB, NoProj, NoneNum, FALSE), DocProject, 1)

Min(a, b) == IF a <= b THEN a ELSE b

\* no force-kill request is being served
NoKill == [pc |-> "idle", pid |-> NoneNum]

InitFleet ==
    /\ now = 1
    /\ file = JsonFile(DocFleet)
    /\ tmpfile = AbsentFile
    /\ lockHolder = NoProc
    /\ rpc = [p \in Procs |-> "idle"]
    /\ rloc = [p \in Procs |-> Locals(NoOp)]
    /\ opsStarted = 0
    /\ serial = Load(file)
    /\ hist = NoHist
    /\ NoServer
    /\ NoBridge
    /\ dash = [answers |-> [p \in Pids |-> TRUE],
               flips |-> 0,
               hb |-> [pc |-> "waiting", queue |-> <<>>, wakeAt |-> 1],
               pr |-> [wakeAt |-> 1],
               pass |-> [p \in Pids |-> "none"],
               seen |-> [p \in Pids |-> "none"]]

\* the instance process dies or hangs: its port stops answering
InstanceDies(pid) ==
    /\ dash.answers[pid]
    /\ dash.flips < MaxFlips
    /\ now <= MaxFlipTime
    /\ dash' = [dash EXCEPT !.answers[pid] = FALSE, !.flips = @ + 1,
                            !.pass[pid] = "none", !.seen[pid] = "none"]
    /\ UNCHANGED <<now, file, fleetFrame>>

\* the instance answers on its port again
InstanceRecovers(pid) ==
    /\ ~dash.answers[pid]
    /\ dash.flips < MaxFlips
    /\ now <= MaxFlipTime
    /\ dash' = [dash EXCEPT !.answers[pid] = TRUE, !.flips = @ + 1,
                            !.pass[pid] = "none", !.seen[pid] = "none"]
    /\ UNCHANGED <<now, file, fleetFrame>>

\* both threads wait: the clock reaches the end of the earlier wait
FleetWait ==
    /\ dash.hb.pc = "waiting"
    /\ now < dash.hb.wakeAt
    /\ now < dash.pr.wakeAt
    /\ Min(dash.hb.wakeAt, dash.pr.wakeAt) <= Horizon
    /\ now' = Min(dash.hb.wakeAt, dash.pr.wakeAt)
    /\ UNCHANGED <<file, dash, fleetFrame>>

\* _heartbeat_checker: instances = self._registry.list_instances()  (line 239)
HeartbeatList ==
    /\ dash.hb.pc = "waiting"
    /\ now >= dash.hb.wakeAt
    /\ dash' = [dash EXCEPT
           !.hb = [pc |-> "probing", queue |-> ListInstances(file), wakeAt |-> @.wakeAt],
           !.pass = [p \in Pids |-> IF dash.answers[p] THEN "answering" ELSE "silent"]]
    /\ UNCHANGED <<now, file, fleetFrame>>

\* if inst.state == InstanceState.ZOMBIE.value: continue  (lines 241-242)
SkipsProbe_Never(inst) == FALSE

SkipsProbe(inst) == inst.state = ZOMBIE

\* the registry call a probe ends with  (lines 245-253)
ProbeOp_NeverMarks(inst, answered) ==
    Op("update_heartbeat", inst.pid, NoReg, NoProj, NoneNum, FALSE)

ProbeOp(inst, answered) ==
    IF answered
    THEN Op("update_heartbeat", inst.pid, NoReg, NoProj, NoneNum, FALSE)
    ELSE Op("mark_zombie", inst.pid, NoReg, NoProj, NoneNum, FALSE)

\* one turn of the for loop of _heartbeat_checker  (lines 240-253)
HeartbeatProbe ==
    /\ dash.hb.pc = "probing"
    /\ dash.hb.queue # <<>>
    /\ LET inst == Head(dash.hb.queue) IN
           file' = IF SkipsProbe(inst)
                   THEN file
                   ELSE RegistryDo(file, ProbeOp(inst, dash.answers[inst.pid]), now)
    /\ dash' = [dash EXCEPT !.hb.queue = Tail(@)]
    /\ UNCHANGED <<now, fleetFrame>>

\* self._shutdown_event.wait(self.HEARTBEAT_CHECK_INTERVAL)  (line 257)
HeartbeatSleep ==
    /\ dash.hb.pc = "probing"
    /\ dash.hb.queue = <<>>
    /\ dash' = [dash EXCEPT
           !.hb = [pc |-> "waiting", queue |-> <<>>,
                   wakeAt |-> now + HEARTBEAT_CHECK_INTERVAL],
           !.seen = dash.pass]
    /\ UNCHANGED <<now, file, fleetFrame>>

\* one turn of _prune_checker  (lines 259-269)
PruneRun ==
    /\ now >= dash.pr.wakeAt
    /\ file' = RegistryDo(file, Op("prune_zombies", NoneNum, NoReg, NoProj,
                                   ZOMBIE_TIMEOUT_SECONDS, FALSE), now)
    /\ dash' = [dash EXCEPT !.pr.wakeAt = now + PRUNE_CHECK_INTERVAL]
    /\ UNCHANGED <<now, fleetFrame>>

NextHealth ==
    \/ \E pid \in Pids : InstanceDies(pid)
    \/ \E pid \in Pids : InstanceRecovers(pid)
    \/ FleetWait
    \/ HeartbeatList
    \/ HeartbeatProbe
    \/ HeartbeatSleep
    \/ PruneRun

\* the two threads run when their waits are over, and time passes
SpecHealth ==
    /\ InitFleet
    /\ [][NextHealth]_vars
    /\ WF_vars(FleetWait)
    /\ WF_vars(HeartbeatList)
    /\ WF_vars(HeartbeatProbe)
    /\ WF_vars(HeartbeatSleep)
    /\ WF_vars(PruneRun)

\* C17: a ZOMBIE instance that answers /heartbeat again before it is pruned is
\* put back to a live state by the dashboard's health checking: once a whole
\* pass of the heartbeat checker has run while the instance answered, the
\* instance is not ZOMBIE in the registry.
C17_AnsweringZombieRestored ==
    \A pid \in Pids :
        (dash.seen[pid] = "answering" /\ Registered(pid)) =>
            Instance(pid).state # ZOMBIE


Silent(pid) == Registered(pid) /\ ~dash.answers[pid]

\* the pruner has removed the instance, more than ZOMBIE_TIMEOUT_SECONDS after
\* ZOMBIE_DETECTED, and has emitted ZOMBIE_PRUNED
PrunedByPruner(pid) ==
    /\ ~Registered(pid)
    /\ \E i \in DOMAIN EventsOf(pid, ZOMBIE_PRUNED) :
       \E j \in DOMAIN EventsOf(pid, ZOMBIE_DETECTED) :
           EventsOf(pid, ZOMBIE_PRUNED)[i].timestamp
               - EventsOf(pid, ZOMBIE_DETECTED)[j].timestamp > ZOMBIE_TIMEOUT_SECONDS

\* a whole pass of the heartbeat checker found the instance silent
ProbedSilent(pid) == dash.seen[pid] = "silent" /\ Registered(pid)

\* C18: a registered live instance that stops answering /heartbeat is marked
\* ZOMBIE by the next probe, and more than 300 s after the detection the pruner
\* removes it and ZOMBIE_PRUNED is emitted, provided the threads of the
\* dashboard are scheduled and time passes.
C18_SilentMarkedThenPruned ==
    \A pid \in Pids :
        /\ [](ProbedSilent(pid) => Instance(pid).state = ZOMBIE)
        /\ [](Registered(pid) \/ EventsOf(pid, ZOMBIE_PRUNED) = <<>> \/ PrunedByPruner(pid))
        /\ Silent(pid) ~> (dash.answers[pid] \/ PrunedByPruner(pid))

C18_Witness ==
    /\ ~dash.answers[1111]
    /\ PrunedByPruner(1111)
    /\ Registered(2222)
    /\ Instance(2222).state # ZOMBIE


(***************************************************************************)
(* The force-kill route of the dashboard (lines 163-188), served while the  *)
(* prune thread may run.                                                    *)
(***************************************************************************)
MaxKills == 2

SIGTERM == "SIGTERM"
SIGKILL == "SIGKILL"
SIGNULL == "signal 0"

\* what the os.kill calls of one request come to: the SIGTERM raises OSError;
\* the process is gone after the SIGTERM; it is still there and the SIGKILL is
\* delivered; it is still there and the SIGKILL raises OSError
KillOutcomes == {"term_fails", "gone", "killed", "kill_fails"}

\* the signals sent and the success flag recorded  (lines 172-187)
KillAttempt(pid, outcome) ==
    CASE outcome = "term_fails" ->
            [signals |-> <<<<pid, SIGTERM>>>>, success |-> FALSE]
      [] outcome = "gone" ->
            [signals |-> <<<<pid, SIGTERM>>, <<pid, SIGNULL>>>>, success |-> TRUE]
      [] OTHER ->
            [signals |-> <<<<pid, SIGTERM>>, <<pid, SIGNULL>>, <<pid, SIGKILL>>>>,
             success |-> TRUE]

\* the request served last: what get_instance found, the signals it sent, and
\* instances.json before and after its record_force_kill
NoRequest == [pid |-> NoneNum, found |-> NoneStr, answer |-> NoneStr, signals |-> <<>>,
              success |-> FALSE, before |-> AbsentFile, after |-> AbsentFile]

\* if inst.state != InstanceState.ZOMBIE.value: refuse  (line 169)
ForceKillAllowed_Any(state) == TRUE

ForceKillAllowed(state) == state = ZOMBIE

\* inst = self._registry.get_instance(pid) and the two refusals  (lines 165-170)
ForceKillCheck(pid) ==
    /\ dash.kill.pc = "idle"
    /\ dash.kills < MaxKills
    /\ LET found == IF Registered(pid) THEN Instance(pid).state ELSE NoneStr
           request == [NoRequest EXCEPT !.pid = pid, !.found = found,
                                        !.before = file, !.after = file]
       IN IF found = NoneStr
          THEN dash' = [dash EXCEPT !.kills = @ + 1,
                           !.done = [request EXCEPT !.answer = "Unknown instance"]]
          ELSE IF ~ForceKillAllowed(found)
          THEN dash' = [dash EXCEPT !.kills = @ + 1,
                           !.done = [request EXCEPT
                               !.answer = "Can only force-kill zombie instances"]]
          ELSE dash' = [dash EXCEPT !.kills = @ + 1,
                           !.kill = [pc |-> "signal", pid |-> pid],
                           !.done = request]
    /\ UNCHANGED <<now, file, fleetFrame>>

\* os.kill(pid, SIGTERM), the wait, os.kill(pid, 0), os.kill(pid, SIGKILL)
ForceKillSignal(outcome) ==
    /\ dash.kill.pc = "signal"
    /\ LET attempt == KillAttempt(dash.kill.pid, outcome) IN
       dash' = [dash EXCEPT !.kill.pc = "record",
                            !.signals = @ \o attempt.signals,
                            !.done.signals = attempt.signals,
                            !.done.success = attempt.success]
    /\ UNCHANGED <<now, file, fleetFrame>>

\* self._registry.record_force_kill(pid, success) and the answer
ForceKillRecord ==
    /\ dash.kill.pc = "record"
    /\ file' = RegistryDo(file, Op("record_force_kill", dash.kill.pid, NoReg, NoProj,
                                   NoneNum, dash.done.success), now)
    /\ dash' = [dash EXCEPT !.kill = NoKill,
                            !.done.answer = "recorded",
                            !.done.before = file,
                            !.done.after = file']
    /\ UNCHANGED <<now, fleetFrame>>

\* instances.json when the requests arrive: one live instance; one zombie; two
\* zombies, the older one due for pruning
KilledDocs == {DocProject, DocZombie, DocTwoZombies}

InitKill ==
    /\ now = ZOMBIE_TIMEOUT_SECONDS + 2
    /\ file \in {JsonFile(d) : d \in KilledDocs}
    /\ tmpfile = AbsentFile
    /\ lockHolder = NoProc
    /\ rpc = [p \in Procs |-> "idle"]
    /\ rloc = [p \in Procs |-> Locals(NoOp)]
    /\ opsStarted = 0
    /\ serial = Load(file)
    /\ hist = NoHist
    /\ NoServer
    /\ NoBridge
    /\ dash = [pr |-> [wakeAt |-> now], kill |-> NoKill, kills |-> 0,
               signals |-> <<>>, done |-> NoRequest]

NextKill ==
    \/ \E pid \in Pids : ForceKillCheck(pid)
    \/ \E outcome \in KillOutcomes : ForceKillSignal(outcome)
    \/ ForceKillRecord
    \/ PruneRun

SpecKill == InitKill /\ [][NextKill]_vars

\* C19: the force-kill route refuses an unknown instance and one that is not
\* ZOMBIE: it sends no signal and leaves the registry as it is.  For a ZOMBIE
\* it records ZOMBIE_FORCE_KILLED whatever the outcome of the kill, and the
\* entry is removed exactly when the kill is recorded as successful.
C19_ForceKillOnlyZombies ==
    LET done == dash.done
        pre == Load(done.before)
        post == Load(done.after)
    IN /\ done.found # ZOMBIE =>
              /\ done.signals = <<>>
              /\ done.after = done.before
              /\ done.answer \in {NoneStr, "Unknown instance",
                                  "Can only force-kill zombie instances"}
       /\ (done.found = ZOMBIE /\ dash.kill = NoKill) => done.answer = "recorded"
       /\ done.answer = "recorded" =>
              /\ done.found = ZOMBIE
              /\ done.signals # <<>>
              /\ Len(post.lifecycle_events) = Len(pre.lifecycle_events) + 1
              /\ LET e == post.lifecycle_events[Len(post.lifecycle_events)] IN
                     /\ e.event_type = ZOMBIE_FORCE_KILLED
                     /\ e.pid = done.pid
                     /\ e.message = ForceKillMessage(done.success)
              /\ HasKey(post.instances, done.pid)
                     <=> (HasKey(pre.instances, done.pid) /\ ~done.success)
              /\ \A other \in Pids \ {done.pid} :
                     HasKey(post.instances, other) <=> HasKey(pre.instances, other)

C19_Witness ==
    /\ dash.done.answer = "recorded"
    /\ dash.done.found = ZOMBIE
    /\ ~dash.done.success
    /\ HasKey(Load(dash.done.after).instances, dash.done.pid)
    /\ dash.kills = 2
    /\ Len(dash.signals) = 4


(***************************************************************************)
(* run_in_thread_if_available (lines 320-370), called by the processes of   *)
(* the host.  What a probe of a port and a bind of a port come to is the    *)
(* host's affair.                                                           *)
(***************************************************************************)
MaxStarts == 2

\* ports of the host; the first stands for SERENA_GLOBAL_DASHBOARD_PORT_DEFAULT
DashboardPorts == <<24400, 24401, 24402, 24403>>
DefaultPort == Head(DashboardPorts)
PreferredPorts == {NoneNum, DashboardPorts[2]}
OwningPids == {NoneNum} \cup Pids

\* GET /global-dashboard/api/instances on a port
ProbeOutcomes == {"ok", "error_status", "no_answer"}

\* _is_serena_global_dashboard: response.ok, or False when the request raises
IsSerenaGlobalDashboard_Never(outcome) == FALSE

IsSerenaGlobalDashboard(outcome) == outcome = "ok"

\* set_global_dashboard, get_global_dashboard_port, clear_global_dashboard
SetGlobalDashboard(data, pid, port) ==
    Outcome([data EXCEPT !.global_dashboard_pid = pid, !.global_dashboard_port = port],
            TRUE, RetNone)
GetGlobalDashboardPort(f) == Load(f).global_dashboard_port
\* if data.global_dashboard_pid == pid  (line 431)
MatchesStored_Any(data, pid) == TRUE

MatchesStored(data, pid) == data.global_dashboard_pid = pid

ClearGlobalDashboard(data, pid) ==
    IF MatchesStored(data, pid)
    THEN Outcome([data EXCEPT !.global_dashboard_pid = NoneNum,
                              !.global_dashboard_port = NoneNum], TRUE, RetNone)
    ELSE Outcome(data, FALSE, RetNone)
Written(f, out) == IF out.save THEN Renamed(JsonFile(Trim(out.data))) ELSE f

\* what the call returns: whether a thread was started, and the port
NoReturn == [thread |-> FALSE, port |-> NoneNum]
Returned(thread, port) == [thread |-> thread, port |-> port]

\* a process outside run_in_thread_if_available; its locals are those of its
\* latest call, with the registry writes and thread starts the call made
StartIdle ==
    [pc |-> "idle", owning_pid |-> NoneNum, port |-> NoneNum, existing |-> NoneNum,
     probed |-> NoneStr, writes |-> 0, started |-> 0, ret |-> NoReturn]

\* port = preferred_port or DEFAULT; existing_port = get_global_dashboard_port()
StartCall(p, preferred_port, owning_pid) ==
    /\ dash.start[p].pc \in {"idle", "done"}
    /\ dash.starts < MaxStarts
    /\ LET existing == GetGlobalDashboardPort(file)
           call == [StartIdle EXCEPT
                       !.owning_pid = owning_pid,
                       !.port = IF TruthyNum(preferred_port)
                                THEN preferred_port ELSE DefaultPort,
                       !.existing = existing]
       IN dash' = [dash EXCEPT
              !.starts = @ + 1,
              !.start[p] = [call EXCEPT !.pc = IF existing # NoneNum
                                               THEN "probe_existing" ELSE "bind"]]
    /\ UNCHANGED <<now, file, fleetFrame>>

\* if self._is_serena_global_dashboard(existing_port): return None, existing_port
\* else: self._registry.clear_global_dashboard(0)  (lines 338-344)
StartProbeExisting(p, outcome) ==
    /\ dash.start[p].pc = "probe_existing"
    /\ IF IsSerenaGlobalDashboard(outcome)
       THEN /\ dash' = [dash EXCEPT !.start[p].pc = "done",
                                    !.start[p].probed = outcome,
                                    !.start[p].ret = Returned(FALSE, dash.start[p].existing)]
            /\ file' = file
       ELSE LET out == ClearGlobalDashboard(Load(file), 0) IN
            /\ dash' = [dash EXCEPT !.start[p].pc = "bind",
                                    !.start[p].probed = outcome,
                                    !.start[p].writes = @ + (IF out.save THEN 1 ELSE 0)]
            /\ file' = Written(file, out)
    /\ UNCHANGED <<now, fleetFrame>>

\* sock.bind(("127.0.0.1", port))  (lines 347-351)
StartBind(p, free) ==
    /\ dash.start[p].pc = "bind"
    /\ dash' = [dash EXCEPT !.start[p].pc = IF free THEN "thread" ELSE "probe_port"]
    /\ UNCHANGED <<now, file, fleetFrame>>

\* the port is in use: a dashboard answers on it, or another port is found
\* (lines 352-361)
StartProbePort(p, outcome, next) ==
    /\ dash.start[p].pc = "probe_port"
    /\ next \in {i \in DOMAIN DashboardPorts : DashboardPorts[i] > dash.start[p].port}
    /\ IF IsSerenaGlobalDashboard(outcome)
       THEN dash' = [dash EXCEPT !.start[p].pc = "done",
                                 !.start[p].ret = Returned(FALSE, dash.start[p].port)]
       ELSE dash' = [dash EXCEPT !.start[p].pc = "thread",
                                 !.start[p].port = DashboardPorts[next]]
    /\ UNCHANGED <<now, file, fleetFrame>>

\* thread = threading.Thread(...); thread.start()  (lines 364-365)
StartThread(p) ==
    /\ dash.start[p].pc = "thread"
    /\ dash' = [dash EXCEPT !.start[p].pc = "record",
                            !.start[p].started = @ + 1,
                            !.threads = @ \cup {<<p, dash.start[p].port>>}]
    /\ UNCHANGED <<now, file, fleetFrame>>

\* if owning_pid is not None: set_global_dashboard(owning_pid, port); return
StartRecord(p) ==
    /\ dash.start[p].pc = "record"
    /\ LET out == IF dash.start[p].owning_pid # NoneNum
                  THEN SetGlobalDashboard(Load(file), dash.start[p].owning_pid,
                                          dash.start[p].port)
                  ELSE Outcome(Load(file), FALSE, RetNone)
       IN /\ file' = Written(file, out)
          /\ dash' = [dash EXCEPT !.start[p].pc = "done",
                                  !.start[p].writes = @ + (IF out.save THEN 1 ELSE 0),
                                  !.start[p].ret = Returned(TRUE, dash.start[p].port)]
    /\ UNCHANGED <<now, fleetFrame>>

\* instances.json at the start: no dashboard recorded, or one recorded
RecordedDashboard == SetGlobalDashboard(DocProject, 1111, DashboardPorts[3]).data
StartDocs == {DocProject, RecordedDashboard}

InitStart ==
    /\ now = 1
    /\ file \in {JsonFile(d) : d \in StartDocs}
    /\ tmpfile = AbsentFile
    /\ lockHolder = NoProc
    /\ rpc = [p \in Procs |-> "idle"]
    /\ rloc = [p \in Procs |-> Locals(NoOp)]
    /\ opsStarted = 0
    /\ serial = Load(file)
    /\ hist = NoHist
    /\ NoServer
    /\ NoBridge
    /\ dash = [start |-> [p \in Procs |-> StartIdle], starts |-> 0, threads |-> {}]

NextStart ==
    \/ \E p \in Procs : \E preferred_port \in PreferredPorts : \E owning_pid \in OwningPids :
           StartCall(p, preferred_port, owning_pid)
    \/ \E p \in Procs : \E outcome \in ProbeOutcomes : StartProbeExisting(p, outcome)
    \/ \E p \in Procs : \E free \in BOOLEAN : StartBind(p, free)
    \/ \E p \in Procs : \E outcome \in ProbeOutcomes : \E next \in DOMAIN DashboardPorts :
           StartProbePort(p, outcome, next)
    \/ \E p \in Procs : StartThread(p)
    \/ \E p \in Procs : StartRecord(p)

SpecStart == InitStart /\ [][NextStart]_vars

\* C20: when the registry holds a global-dashboard record and that port answers
\* the probe GET /global-dashboard/api/instances, run_in_thread_if_available
\* starts no thread, writes nothing to the registry and returns the recorded
\* port with no thread.
C20_NoSecondDashboard ==
    \A p \in Procs :
        LET call == dash.start[p] IN
        (call.existing # NoneNum /\ call.probed = "ok") =>
            /\ call.pc = "done"
            /\ call.ret = Returned(FALSE, call.existing)
            /\ call.started = 0
            /\ call.writes = 0

C20_Witness ==
    /\ dash.start["procA"].probed = "ok"
    /\ dash.start["procA"].ret = Returned(FALSE, DashboardPorts[3])
    /\ dash.start["procB"].pc = "done"
    /\ dash.start["procB"].ret.thread
    /\ GetGlobalDashboardPort(file) = DashboardPorts[3]
    /\ dash.threads # {}

(***************************************************************************)
(* Claims about register and update_project                                *)
(***************************************************************************)
Registered_Before(h) == h.op.pid \in KeySet(h.pre.instances)

EventTypes(events) == [i \in 1..Len(events) |-> events[i].event_type]

\* every entry but that of the call's pid is as it was
OthersKept(h) ==
    \A k \in KeySet(h.pre.instances) \cup KeySet(h.post.instances) :
        k # h.op.pid =>
            /\ k \in KeySet(h.pre.instances)
            /\ k \in KeySet(h.post.instances)
            /\ GetInst(h.post.instances, k) = GetInst(h.pre.instances, k)

OneEntry(h) ==
    Cardinality({i \in 1..Len(h.post.instances) : h.post.instances[i].key = h.op.pid}) = 1

\* C21: register on a pid that is already registered leaves exactly one entry
\* for the pid, keeps its started_at, sets last_heartbeat to the clock (never
\* back), updates port, context and modes, emits no INSTANCE_STARTED, and if
\* the entry was ZOMBIE makes it LIVE_NO_PROJECT and emits HEARTBEAT_RESTORED.
C21_ReRegisterUpdates ==
    (hist.op.name = "register" /\ Registered_Before(hist)) =>
        LET old == GetInst(hist.pre.instances, hist.op.pid)
            new == GetInst(hist.post.instances, hist.op.pid)
        IN /\ OneEntry(hist)
           /\ Keys(hist.post.instances) = Keys(hist.pre.instances)
           /\ new.started_at = old.started_at
           /\ new.last_heartbeat = hist.at
           /\ new.last_heartbeat >= old.last_heartbeat
           /\ new.port = hist.op.port
           /\ new.context = hist.op.context
           /\ new.modes = ModesOrEmpty(hist.op.modes)
           /\ KeepsEvents(hist)
           /\ \A i \in 1..Len(NewEvents(hist)) :
                 NewEvents(hist)[i].event_type # INSTANCE_STARTED
           /\ IF old.state = ZOMBIE
              THEN /\ new.state = LIVE_NO_PROJECT
                   /\ EventTypes(NewEvents(hist)) = <<HEARTBEAT_RESTORED>>
                   /\ NewEvents(hist)[1].pid = hist.op.pid
              ELSE /\ new.state = old.state
                   /\ NewEvents(hist) = <<>>
           /\ hist.ret = RetInfo(new)

\* register on a zombie, later than its start and with another port
C21_Witness ==
    /\ hist.op.name = "register"
    /\ Registered_Before(hist)
    /\ GetInst(hist.pre.instances, hist.op.pid).state = ZOMBIE
    /\ GetInst(hist.post.instances, hist.op.pid).last_heartbeat >
         GetInst(hist.post.instances, hist.op.pid).started_at
    /\ hist.op.port # GetInst(hist.pre.instances, hist.op.pid).port

\* C22: update_project on a registered pid with a non-empty name sets state
\* LIVE_WITH_PROJECT and emits PROJECT_ACTIVATED exactly when the name differs
\* from the previous one; with an empty name it sets LIVE_NO_PROJECT and emits
\* PROJECT_DEACTIVATED exactly when a project was set before; on an unknown
\* pid it leaves the file and its event log as they are.
C22_UpdateProjectTransitions ==
    hist.op.name = "update_project" =>
        IF ~Registered_Before(hist)
        THEN /\ hist.post = hist.pre
             /\ hist.ret = RetNone
        ELSE LET old == GetInst(hist.pre.instances, hist.op.pid)
                 new == GetInst(hist.post.instances, hist.op.pid)
                 name == hist.op.project_name
             IN /\ OneEntry(hist)
                /\ OthersKept(hist)
                /\ KeepsEvents(hist)
                /\ new.project_name = name
                /\ IF TruthyStr(name)
                   THEN /\ new.state = LIVE_WITH_PROJECT
                        /\ IF name # old.project_name
                           THEN /\ EventTypes(NewEvents(hist)) = <<PROJECT_ACTIVATED>>
                                /\ NewEvents(hist)[1].pid = hist.op.pid
                                /\ NewEvents(hist)[1].project_name = name
                           ELSE NewEvents(hist) = <<>>
                   ELSE /\ new.state = LIVE_NO_PROJECT
                        /\ IF TruthyStr(old.project_name)
                           THEN /\ EventTypes(NewEvents(hist)) = <<PROJECT_DEACTIVATED>>
                                /\ NewEvents(hist)[1].pid = hist.op.pid
                                /\ NewEvents(hist)[1].project_name = old.project_name
                           ELSE NewEvents(hist) = <<>>

\* the project is activated again under the name it already has
C22_Witness ==
    /\ hist.op.name = "update_project"
    /\ Registered_Before(hist)
    /\ hist.op.project_name = "projA"
    /\ GetInst(hist.pre.instances, hist.op.pid).project_name = "projA"
    /\ hist.prev.name = "update_project"
    /\ hist.prev.project_name = ""
    /\ hist.prev.pid # hist.op.pid

\* C23: register on a pid that is absent inserts one entry in state
\* LIVE_NO_PROJECT with started_at = last_heartbeat = now, no project and no
\* zombie_detected_at, and emits exactly one INSTANCE_STARTED event, for that
\* pid.
C23_RegisterInserts ==
    (hist.op.name = "register" /\ ~Registered_Before(hist)) =>
        LET new == GetInst(hist.post.instances, hist.op.pid) IN
        /\ OneEntry(hist)
        /\ Len(hist.post.instances) = Len(hist.pre.instances) + 1
        /\ OthersKept(hist)
        /\ new.pid = hist.op.pid
        /\ new.port = hist.op.port
        /\ new.state = LIVE_NO_PROJECT
        /\ new.started_at = hist.at
        /\ new.last_heartbeat = hist.at
        /\ new.project_name = NoneStr
        /\ new.project_root = NoneStr
        /\ new.zombie_detected_at = NoneNum
        /\ KeepsEvents(hist)
        /\ EventTypes(NewEvents(hist)) = <<INSTANCE_STARTED>>
        /\ NewEvents(hist)[1].pid = hist.op.pid
        /\ hist.ret = RetInfo(new)

\* the pid is registered again after it was unregistered
C23_Witness ==
    /\ hist.op.name = "register"
    /\ ~Registered_Before(hist)
    /\ hist.prev.name = "unregister"
    /\ hist.prev.pid = hist.op.pid
    /\ hist.at > 1
    /\ Len(hist.post.instances) = 1

(***************************************************************************)
(* The global-dashboard record of the registry: set_global_dashboard,      *)
(* get_global_dashboard_port and clear_global_dashboard called one after   *)
(* the other (instance_registry.py, lines 413-434).  dash.log keeps each   *)
(* call with the record before it and what get_global_dashboard_port       *)
(* returns after it.                                                       *)
(***************************************************************************)
MaxRecordCalls == 3

\* pids that set and clear the record; 0 is what run_in_thread_if_available
\* passes to clear_global_dashboard
RecordPids == Pids \cup {0}
RecordPorts == {DashboardPorts[1], DashboardPorts[2]}

RecordOf(f) == [pid |-> Load(f).global_dashboard_pid,
                port |-> Load(f).global_dashboard_port]

RecordCall(name, pid, port, out) ==
    /\ Len(dash.log) < MaxRecordCalls
    /\ file' = Written(file, out)
    /\ dash' = [dash EXCEPT !.log = Append(@,
                   [name |-> name, pid |-> pid, port |-> port,
                    before |-> RecordOf(file), saved |-> out.save,
                    kept |-> Load(file').instances = Load(file).instances
                             /\ Load(file').lifecycle_events = Load(file).lifecycle_events,
                    get |-> GetGlobalDashboardPort(file')])]
    /\ UNCHANGED <<now, fleetFrame>>

CallSetGlobalDashboard(pid, port) ==
    RecordCall("set_global_dashboard", pid, port, SetGlobalDashboard(Load(file), pid, port))

CallClearGlobalDashboard(pid) ==
    RecordCall("clear_global_dashboard", pid, NoneNum, ClearGlobalDashboard(Load(file), pid))

InitRecord ==
    /\ now = 1
    /\ file \in {AbsentFile} \cup {JsonFile(d) : d \in StartDocs}
    /\ tmpfile = AbsentFile
    /\ lockHolder = NoProc
    /\ rpc = [p \in Procs |-> "idle"]
    /\ rloc = [p \in Procs |-> Locals(NoOp)]
    /\ opsStarted = 0
    /\ serial = Load(file)
    /\ hist = NoHist
    /\ NoServer
    /\ NoBridge
    /\ dash = [log |-> <<>>]

NextRecord ==
    \/ \E pid \in RecordPids : \E port \in RecordPorts : CallSetGlobalDashboard(pid, port)
    \/ \E pid \in RecordPids : CallClearGlobalDashboard(pid)

SpecRecord == InitRecord /\ [][NextRecord]_vars

SetThenClearOther(i) ==
    /\ i + 1 <= Len(dash.log)
    /\ dash.log[i].name = "set_global_dashboard"
    /\ dash.log[i + 1].name = "clear_global_dashboard"
    /\ dash.log[i + 1].pid # dash.log[i].pid

\* C24: clear_global_dashboard(pid) clears the stored pid and port exactly when
\* pid is the stored global_dashboard_pid, and otherwise writes nothing; after
\* set_global_dashboard(a, x), clear_global_dashboard(b) with b # a leaves
\* get_global_dashboard_port at x, and a clear_global_dashboard(a) that follows
\* makes it none.
C24_ClearMatchesStoredPid ==
    \A i \in 1..Len(dash.log) :
        LET call == dash.log[i] IN
        /\ call.kept
        /\ call.name = "set_global_dashboard" => call.get = call.port
        /\ call.name = "clear_global_dashboard" =>
               IF call.pid = call.before.pid
               THEN call.get = NoneNum
               ELSE call.get = call.before.port /\ ~call.saved
        /\ SetThenClearOther(i) =>
               /\ dash.log[i + 1].get = call.port
               /\ (/\ i + 2 <= Len(dash.log)
                   /\ dash.log[i + 2].name = "clear_global_dashboard"
                   /\ dash.log[i + 2].pid = call.pid) => dash.log[i + 2].get = NoneNum

C24_Witness ==
    /\ Len(dash.log) = 3
    /\ SetThenClearOther(1)
    /\ dash.log[3].name = "clear_global_dashboard"
    /\ dash.log[3].pid = dash.log[1].pid
    /\ dash.log[2].get = DashboardPorts[2]
    /\ dash.log[3].get = NoneNum

(***************************************************************************)
(* The two event rings when they are full: instances.json after a long run *)
(* of project activations and deactivations of one instance, which then    *)
(* became a zombie like a second one, and the log of a server that has     *)
(* executed many tools for sessions since reaped.                          *)
(* The registry is then called as in SpecRegistry, and sessions are        *)
(* created and disconnected as in SpecServer.                              *)
(***************************************************************************)
\* the document after register(1111) and n calls of update_project(1111) that
\* set and clear the project in turn, all at time 1: n + 1 events
Busy(n) ==
    LET live == GetInst(DocLive.instances, 1111)
        info == IF n % 2 = 1
                THEN [live EXCEPT !.project_name = ProjA.name,
                                  !.project_root = ProjA.root,
                                  !.state = LIVE_WITH_PROJECT]
                ELSE live
        toggles == [i \in 1..n |->
                      LifecycleEvent(1, IF i % 2 = 1 THEN PROJECT_ACTIVATED
                                                     ELSE PROJECT_DEACTIVATED,
                                     1111, live.port, ProjA.name, NoMessage)]
    IN [DocLive EXCEPT !.instances = SetInst(@, 1111, info),
                       !.lifecycle_events = @ \o toggles]

\* the log after n tool_executed events of two former sessions
BusyLog(n) ==
    [i \in 1..n |->
        ServerEvent(1, "tool_executed", IF i % 2 = 1 THEN "s8" ELSE "s9",
                    [tool_name |-> "find_symbol", success |-> TRUE])]

\* then register(2222), mark_zombie(2222), mark_zombie(1111): n + 4 events
BusyZombies(n) ==
    WholeOp(Op("mark_zombie", 1111, NoReg, NoProj, NoneNum, FALSE),
        WholeOp(Op("mark_zombie", 2222, NoReg, NoProj, NoneNum, FALSE),
            WholeOp(Op("register", 2222, RegB, NoProj, NoneNum, FALSE), Busy(n), 1), 1), 1)

InitRings ==
    /\ now = 2
    /\ file \in {JsonFile(BusyZombies(MAX_LIFECYCLE_EVENTS - k)) : k \in {4, 5}}
    /\ tmpfile = AbsentFile
    /\ lockHolder = NoProc
    /\ rpc = [p \in Procs |-> "idle"]
    /\ rloc = [p \in Procs |-> Locals(NoOp)]
    /\ opsStarted = 0
    /\ serial = Load(file)
    /\ hist = NoHist
    /\ NoBridge
    /\ NoDashboard
    /\ sess = <<>>
    /\ sessions = <<>>
    /\ mgrLock = NoThread
    /\ thr = [t \in Threads |-> ExecIdle]
    /\ reaper = <<>>
    /\ \E k \in {0, 1} :
          srv = [agents |-> {}, total_tool_calls |-> SERVER_MAX_LIFECYCLE_EVENTS - k,
                 total_sessions_created |-> 2, statsLock |-> NoThread,
                 events |-> BusyLog(SERVER_MAX_LIFECYCLE_EVENTS - k)]
    /\ sessOps = [calls |-> 0, ops |-> 0]
    /\ sessHist = [served |-> [id \in SessionIdSet |-> [n \in ToolNames |-> 0]]]

NextRings ==
    \/ \E pid \in Pids : CallRegister(pid, RegA, now)
    \/ \E pid \in Pids : CallUnregister(pid, now)
    \/ CallUpdateProject(1111, ProjA, now)
    \/ CallPruneZombies(0, now)
    \/ ServerCreateSession
    \/ \E id \in SessionIdSet : ServerDisconnectSession(id)

SpecRings == InitRings /\ [][NextRings]_vars

RegistryRing == Load(file).lifecycle_events

BoundedRings ==
    /\ Len(RegistryRing) <= MAX_LIFECYCLE_EVENTS
    /\ Len(srv.events) <= SERVER_MAX_LIFECYCLE_EVENTS

IsPrefix(s, q) == Len(s) <= Len(q) /\ SubSeq(q, 1, Len(s)) = s

\* a registry call leaves on disk the newest events of the list it appended to
RegistryNewestKept ==
    IF hist' = hist
    THEN RegistryRing' = RegistryRing
    ELSE LET out == ApplyOp(hist'.op, Load(file), hist'.at)
             appended == out.data.lifecycle_events
         IN /\ IsPrefix(RegistryRing, appended)
            /\ RegistryRing' = IF out.save
                               THEN LastN(appended, MAX_LIFECYCLE_EVENTS)
                               ELSE RegistryRing

\* create_session and disconnect_session each append one event to the server's
\* log, which then holds the newest events
ServerNewestKept ==
    LET created == srv'.total_sessions_created - srv.total_sessions_created
        disconnected == sessOps'.ops - sessOps.ops
        last == srv'.events[Len(srv'.events)]
    IN IF created + disconnected = 0
       THEN srv'.events = srv.events
       ELSE /\ created + disconnected = 1
            /\ srv'.events = LastN(Append(srv.events, last), SERVER_MAX_LIFECYCLE_EVENTS)
            /\ last.event_type = IF created = 1 THEN "session_created"
                                                ELSE "session_disconnected"

\* C25: the registry document on disk never holds more than 1000 lifecycle
\* events and the server's log never more than 500, and every operation leaves
\* in each ring the newest events, in the order they were appended.
C25_RingsBoundedNewestKept ==
    []BoundedRings /\ [][RegistryNewestKept /\ ServerNewestKept]_vars

\* both rings are full and have dropped their oldest events, the registry's
\* two at once
C25_Witness ==
    /\ Len(RegistryRing) = MAX_LIFECYCLE_EVENTS
    /\ Len(srv.events) = SERVER_MAX_LIFECYCLE_EVENTS
    /\ RegistryRing[1].event_type = PROJECT_DEACTIVATED
    /\ hist.op.name = "prune_zombies"
    /\ Len(hist.ret.pids) = 2
    /\ srv.events[1].session_id = "s9"
    /\ srv.events[SERVER_MAX_LIFECYCLE_EVENTS].event_type = "session_disconnected"

(***************************************************************************)
(* instances.json with contents that are not a registry document, and the  *)
(* public operations called on it (_load, lines 150-160; from_dict, lines  *)
(* 112-122).                                                               *)
(***************************************************************************)
MaxCorruptCalls == 2

\* what the file holds: truncated or otherwise malformed JSON; a JSON list at
\* top level; an instances key that is no number; an instance or event with an
\* unexpected field; an instance or event with a required field missing
CorruptKinds ==
    {"partial", "malformed_json", "top_level_list", "non_numeric_pid",
     "unexpected_field", "missing_field"}

CorruptFile(kind) == [kind |-> kind, doc |-> ToDict(RegistryData)]

\* the exception raised inside the try block of _load
\*   json.load(f)                        json.JSONDecodeError   (line 156)
\*   data.get("instances", {}) on a list AttributeError         (line 115)
\*   int(k) for a key like "abc"         ValueError             (line 115)
\*   cls(**data)                         TypeError              (lines 63, 91)
LoadError(f) ==
    CASE f.kind \in {"partial", "malformed_json"} -> "JSONDecodeError"
      [] f.kind = "top_level_list" -> "AttributeError"
      [] f.kind = "non_numeric_pid" -> "ValueError"
      [] f.kind \in {"unexpected_field", "missing_field"} -> "TypeError"
      [] OTHER -> NoneStr

\* except (json.JSONDecodeError, KeyError, TypeError)  (line 158)
CaughtByLoad(exc) == exc \in {"JSONDecodeError", "KeyError", "TypeError"}

LoadRaises(f) == LoadError(f) # NoneStr /\ ~CaughtByLoad(LoadError(f))

\* the public operations: those of RegistryOps and the readers
PublicOps ==
    RegistryOps
    \cup {Op(n, pid, NoReg, NoProj, NoneNum, FALSE) : n \in {"get_instance"}, pid \in Pids}
    \cup {Op(n, NoneNum, NoReg, NoProj, NoneNum, FALSE) :
             n \in {"list_instances", "get_lifecycle_events", "get_global_dashboard_port"}}

NoCall == [op |-> NoOp, raised |-> NoneStr, before |-> AbsentFile, after |-> AbsentFile]

\* one public operation: with self._lock: data = self._load() ... self._save(data);
\* an exception _load does not catch leaves the method and releases the lock
PublicCall(op) ==
    /\ dash.calls < MaxCorruptCalls
    /\ IF LoadRaises(file)
       THEN /\ file' = file
            /\ dash' = [calls |-> dash.calls + 1,
                        last |-> [op |-> op, raised |-> LoadError(file),
                                  before |-> file, after |-> file]]
       ELSE /\ file' = RegistryDo(file, op, now)
            /\ dash' = [calls |-> dash.calls + 1,
                        last |-> [op |-> op, raised |-> NoneStr,
                                  before |-> file, after |-> file']]
    /\ UNCHANGED <<now, fleetFrame>>

InitCorrupt ==
    /\ now = 1
    /\ file \in {CorruptFile(kind) : kind \in CorruptKinds}
    /\ tmpfile = AbsentFile
    /\ lockHolder = NoProc
    /\ rpc = [p \in Procs |-> "idle"]
    /\ rloc = [p \in Procs |-> Locals(NoOp)]
    /\ opsStarted = 0
    /\ serial = Load(file)
    /\ hist = NoHist
    /\ NoServer
    /\ NoBridge
    /\ dash = [calls |-> 0, last |-> NoCall]

NextCorrupt == \E op \in PublicOps : PublicCall(op)

SpecCorrupt == InitCorrupt /\ [][NextCorrupt]_vars

\* C26: a public operation called while instances.json exists but is no
\* registry document does not raise, acts as on an empty registry, and when it
\* writes leaves a well-formed document.
C26_CorruptReadsAsEmpty ==
    (dash.last.op # NoOp /\ dash.last.before.kind \in CorruptKinds) =>
        /\ dash.last.raised = NoneStr
        /\ dash.last.after \in {dash.last.before,
                                RegistryDo(AbsentFile, dash.last.op, now)}
        /\ dash.last.after # dash.last.before => dash.last.after.kind = "json"

(***************************************************************************)
(* Further claims about Session                                            *)
(***************************************************************************)
\* the public mutators of Session
PublicMutators ==
    {"set_active_project", "set_active_modes", "increment_tool_calls", "disconnect",
     "state"}

\* the mutator called last called touch(): last_activity is the clock reading
\* of that call
TouchedByLastMutator ==
    sessHist.mut \in PublicMutators => sess[S1].last_activity = sessHist.mutAt

\* C27: every public mutator of Session (set_active_project, set_active_modes,
\* increment_tool_calls, disconnect, the state setter) calls touch(), so that
\* last_activity is the time of the latest mutation, and no operation lowers
\* last_activity.
C27_MutatorsTouch ==
    /\ []TouchedByLastMutator
    /\ [][sess'[S1].last_activity >= sess[S1].last_activity]_vars

\* the methods that write the stored state
StateWriters == {"set_active_project", "disconnect", "state"}

\* the state the latest writer left
StateOfLastWriter ==
    /\ sessHist.mut = "__init__" => sess[S1].state = CONNECTED
    /\ sessHist.mut = "set_active_project" =>
           sess[S1].state = IF sess[S1].active_project # NoneStr THEN ACTIVE ELSE CONNECTED
    /\ sessHist.mut = "disconnect" => sess[S1].state = DISCONNECTED
    /\ sess[S1].state \in {CONNECTED, ACTIVE, DISCONNECTED}

\* C28: a session is created CONNECTED, is ACTIVE after set_active_project with
\* a project, CONNECTED after set_active_project(None) and DISCONNECTED after
\* disconnect(); the stored state is only ever CONNECTED, ACTIVE or
\* DISCONNECTED, and no other method changes it.
C28_SessionLifecycle ==
    /\ []StateOfLastWriter
    /\ [][sess'[S1].state # sess[S1].state =>
              (sessHist'.mut \in StateWriters /\ sessHist'.read = sessHist.read)]_vars

\* a session that was read ACTIVE is CONNECTED again after set_active_project(None)
C28_Witness ==
    /\ sessHist.mut = "set_active_project"
    /\ sess[S1].state = CONNECTED
    /\ sessHist.read.valid
    /\ sessHist.read.before.state = ACTIVE
    /\ sessHist.read.at < sessHist.mutAt

(***************************************************************************)
(* SessionManager.create_session called by several threads, some with an   *)
(* explicit session_id (session.py, lines 256-268).  Here sess holds the   *)
(* Session objects by identity and sessions is the dict self._sessions, a  *)
(* sequence of (key, object) entries.                                      *)
(***************************************************************************)
MaxCreates == 3

\* the Session objects, in the order they are constructed, and the id
\* uuid.uuid4() gives each
Objects == <<"o1", "o2", "o3", "o4">>
Uuid == [o \in {"o1", "o2", "o3", "o4"} |-> <<"uuid of ", o>>]

\* session_id arguments: None, the empty string, an id of the caller's choice
ExplicitIds == {NoneStr, "", "my-session"}

DictHas(d, key) == \E i \in 1..Len(d) : d[i].key = key
\* d[key] = ref
DictSet(d, key, ref) ==
    IF DictHas(d, key)
    THEN [i \in 1..Len(d) |-> IF d[i].key = key THEN [key |-> key, ref |-> ref] ELSE d[i]]
    ELSE Append(d, [key |-> key, ref |-> ref])
DictRefs(d) == {d[i].ref : i \in 1..Len(d)}

CreateIdle == [pc |-> "idle", ref |-> NoneStr, ret |-> NoneStr]

\* self.session_id = session_id or str(uuid.uuid4())  (line 115)
SessionIdOrUuid(session_id, ref) ==
    IF TruthyStr(session_id) THEN <<session_id>> ELSE Uuid[ref]

\* session = Session(session_id=session_id, client_name=client_name)  (line 264)
CreateConstruct(t, session_id) ==
    /\ thr[t].pc = "idle"
    /\ sessOps.calls < MaxCreates
    /\ LET ref == Objects[Cardinality(DOMAIN sess) + 1] IN
       /\ sess' = [o \in DOMAIN sess \cup {ref} |->
                      IF o = ref
                      THEN NewSession(SessionIdOrUuid(session_id, ref), now)
                      ELSE sess[o]]
       /\ thr' = [thr EXCEPT ![t] = [pc |-> "store", ref |-> ref, ret |-> NoneStr]]
    /\ sessOps' = [sessOps EXCEPT !.calls = @ + 1]
    /\ UNCHANGED <<now, sessions, mgrLock, reaper, srv, sessHist>>
    /\ UNCHANGED <<regVars, bridge, dash>>

\* with self._lock: self._sessions[session.session_id] = session; return session
\* (lines 265-268)
CreateStore(t) ==
    /\ thr[t].pc = "store"
    /\ CanLockManager(t)
    /\ sessions' = DictSet(sessions, sess[thr[t].ref].session_id, thr[t].ref)
    /\ thr' = [thr EXCEPT ![t] = [pc |-> "idle", ref |-> NoneStr, ret |-> thr[t].ref]]
    /\ sessHist' = [sessHist EXCEPT !.stored = @ \cup {thr[t].ref},
                                    !.returned = @ + 1]
    /\ UNCHANGED <<now, sess, mgrLock, reaper, srv, sessOps>>
    /\ UNCHANGED <<regVars, bridge, dash>>

InitCreate ==
    /\ now = 1
    /\ NoRegistry
    /\ NoBridge
    /\ NoDashboard
    /\ sess = <<>>
    /\ sessions = <<>>
    /\ mgrLock = NoThread
    /\ thr = [t \in Threads |-> CreateIdle]
    /\ reaper = <<>>
    /\ srv = <<>>
    /\ sessOps = [calls |-> 0]
    /\ sessHist = [stored |-> {}, returned |-> 0]

NextCreate ==
    \/ \E t \in Threads : \E session_id \in ExplicitIds : CreateConstruct(t, session_id)
    \/ \E t \in Threads : CreateStore(t)

SpecCreate == InitCreate /\ [][NextCreate]_vars

\* C29: every call of create_session adds one new CONNECTED session to the map;
\* no call replaces or drops a session that is in the map, and no two sessions
\* have the same id, also when session_id is passed and under concurrent calls.
C29_CreateNeverReplaces ==
    /\ Len(sessions) = sessHist.returned
    /\ DictRefs(sessions) = sessHist.stored
    /\ \A i \in 1..Len(sessions) :
          /\ sess[sessions[i].ref].session_id = sessions[i].key
          /\ sess[sessions[i].ref].state = CONNECTED
    /\ \A o1 \in sessHist.stored : \A o2 \in sessHist.stored :
          o1 # o2 => sess[o1].session_id # sess[o2].session_id

(***************************************************************************)
(* SessionManager.shutdown beside the SessionCleanup thread (session.py,   *)
(* lines 359-394).  Clients create, use and disconnect sessions until      *)
(* shutdown is called.  The cleanup thread may be slow: the clock may      *)
(* advance between any two of its steps.                                   *)
(***************************************************************************)
JOIN_TIMEOUT_SECONDS == 5

MaxClientCalls == 2

MaxShutdownTicks == 2

ShutdownElapsed == {JOIN_TIMEOUT_SECONDS, CLEANUP_INTERVAL_SECONDS}

\* while not self._shutdown_event.is_set()  (line 367)
KeepsLooping_Always(event) == TRUE

KeepsLooping(event) == ~event

\* shutdown has disconnected the sessions (lines 389-391 are over)
ShutdownDisconnected == thr.pc \in {"join", "returned"}

\* clients call the manager until shutdown has disconnected the sessions
ClientMayCall == ~ShutdownDisconnected /\ sessOps.ops < MaxClientCalls

\* the test of the while loop: another iteration, or the thread ends
LoopCheck ==
    /\ reaper.pc = "check"
    /\ reaper' = IF KeepsLooping(reaper.event)
                 THEN [reaper EXCEPT !.pc = "cleanup",
                                     !.begunAfterSet = @ \/ reaper.event]
                 ELSE [reaper EXCEPT !.pc = "stopped"]
    /\ UNCHANGED <<now, sess, sessions, mgrLock, thr, srv, sessOps, sessHist>>
    /\ UNCHANGED <<regVars, bridge, dash>>

\* self._cleanup_old_sessions(), under the manager's lock  (lines 343-357)
LoopCleanup ==
    /\ reaper.pc = "cleanup"
    /\ CanLockManager(Cleanup)
    /\ sessions' = SelectSeq(sessions, LAMBDA id : ~Reapable(sess[id], now, now))
    /\ reaper' = [reaper EXCEPT !.pc = "wait", !.wakeAt = now + CLEANUP_INTERVAL_SECONDS,
                                !.cleanups = @ + 1]
    /\ UNCHANGED <<now, sess, mgrLock, thr, srv, sessOps, sessHist>>
    /\ UNCHANGED <<regVars, bridge, dash>>

\* self._shutdown_event.wait(60) returns: the event is set, or 60 s passed
LoopWake ==
    /\ reaper.pc = "wait"
    /\ reaper.event \/ now >= reaper.wakeAt
    /\ reaper' = [reaper EXCEPT !.pc = "check"]
    /\ UNCHANGED <<now, sess, sessions, mgrLock, thr, srv, sessOps, sessHist>>
    /\ UNCHANGED <<regVars, bridge, dash>>

\* self._shutdown_event.set()  (line 387)
ShutdownSet ==
    /\ thr.pc = "idle"
    /\ thr' = [thr EXCEPT !.pc = "disconnect"]
    /\ reaper' = [reaper EXCEPT !.event = TRUE]
    /\ UNCHANGED <<now, sess, sessions, mgrLock, srv, sessOps, sessHist>>
    /\ UNCHANGED <<regVars, bridge, dash>>

\* with self._lock: for session in self._sessions.values(): session.disconnect()
\* if self._cleanup_thread is not None: join begins  (lines 389-394)
ShutdownDisconnectAll ==
    /\ thr.pc = "disconnect"
    /\ CanLockManager(Caller)
    /\ sess' = [id \in DOMAIN sess |->
                   IF Contains(sessions, id) THEN Disconnect(sess[id], now) ELSE sess[id]]
    /\ thr' = IF reaper.pc = "not_started"
              THEN [thr EXCEPT !.pc = "returned"]
              ELSE [thr EXCEPT !.pc = "join", !.joinAt = now]
    /\ UNCHANGED <<now, sessions, mgrLock, reaper, srv, sessOps, sessHist>>
    /\ UNCHANGED <<regVars, bridge, dash>>

\* self._cleanup_thread.join(timeout=5) returns: the thread ended, or 5 s passed
ShutdownJoin ==
    /\ thr.pc = "join"
    /\ reaper.pc = "stopped" \/ now >= thr.joinAt + JOIN_TIMEOUT_SECONDS
    /\ thr' = [thr EXCEPT !.pc = "returned", !.timedOut = reaper.pc # "stopped",
                          !.waited = now - thr.joinAt]
    /\ UNCHANGED <<now, sess, sessions, mgrLock, reaper, srv, sessOps, sessHist>>
    /\ UNCHANGED <<regVars, bridge, dash>>

\* time passes; a thread waiting in join wakes when its timeout is over
ShutdownTick(d) ==
    /\ sessOps.ticks < MaxShutdownTicks
    /\ thr.pc = "join" => now + d <= thr.joinAt + JOIN_TIMEOUT_SECONDS
    /\ now' = now + d
    /\ sessOps' = [sessOps EXCEPT !.ticks = @ + 1]
    /\ UNCHANGED <<sess, sessions, mgrLock, thr, reaper, srv, sessHist>>
    /\ UNCHANGED <<regVars, bridge, dash>>

\* SessionManager.__init__, with or without start_cleanup_thread
InitShutdown ==
    /\ now = 1
    /\ NoRegistry
    /\ NoBridge
    /\ NoDashboard
    /\ sess = <<>>
    /\ sessions = <<>>
    /\ mgrLock = NoThread
    /\ thr = [pc |-> "idle", joinAt |-> NoneNum, timedOut |-> FALSE, waited |-> 0]
    /\ \E started \in BOOLEAN :
          reaper = [pc |-> IF started THEN "check" ELSE "not_started", wakeAt |-> 1,
                    event |-> FALSE, begunAfterSet |-> FALSE, cleanups |-> 0]
    /\ srv = <<>>
    /\ sessOps = [ops |-> 0, ticks |-> 0]
    /\ sessHist = [discAt |-> <<>>, reaped |-> {}, swept |-> NoneNum]

NextShutdown ==
    \/ ClientMayCall /\ CreateSession
    \/ ClientMayCall /\ \E id \in SessionIdSet : DisconnectSession(id)
    \/ ClientMayCall /\ \E id \in SessionIdSet : MethodSetActiveProject(id, "projA")
    \/ \E d \in ShutdownElapsed : ShutdownTick(d)
    \/ LoopCheck
    \/ LoopCleanup
    \/ LoopWake
    \/ ShutdownSet
    \/ ShutdownDisconnectAll
    \/ ShutdownJoin

\* the cleanup thread and the thread in shutdown keep running
SpecShutdown ==
    /\ InitShutdown
    /\ [][NextShutdown]_vars
    /\ WF_vars(LoopCheck) /\ WF_vars(LoopCleanup) /\ WF_vars(LoopWake)
    /\ WF_vars(ShutdownDisconnectAll) /\ WF_vars(ShutdownJoin)

ReaperEnded == reaper.pc \in {"stopped", "not_started"}

AfterShutdown ==
    thr.pc = "returned" =>
        /\ \A i \in 1..Len(sessions) : sess[sessions[i]].state = DISCONNECTED
        /\ thr.waited <= JOIN_TIMEOUT_SECONDS
        /\ ~thr.timedOut => ReaperEnded

\* C30: when shutdown() has returned every session in the manager is
\* DISCONNECTED and shutdown waited at most 5 s for the cleanup thread; the
\* cleanup thread, once the shutdown event is set, begins no further cleanup
\* iteration and ends.
C30_ShutdownStopsReaper ==
    /\ []AfterShutdown
    /\ []~reaper.begunAfterSet
    /\ [][reaper.pc = "stopped" => reaper'.pc = "stopped"]_vars
    /\ (reaper.event ~> ReaperEnded)

\* shutdown returned after the cleanup thread, which had run an iteration,
\* ended; an ACTIVE session is now DISCONNECTED
C30_Witness ==
    /\ thr.pc = "returned"
    /\ ~thr.timedOut
    /\ reaper.pc = "stopped"
    /\ reaper.cleanups >= 1
    /\ Len(sessions) = 1
    /\ sess["s1"].active_project = "projA"
    /\ sess["s1"].state = DISCONNECTED

(***************************************************************************)
(* CentralizedSerenaServer.shutdown beside disconnect_session              *)
(* (central_server.py, lines 228-254 and 428-457).  Two threads call        *)
(* disconnect_session, the main thread calls shutdown; the agents are       *)
(* guarded by _session_agents_lock.  The cleanup thread of the              *)
(* SessionManager is the subject of SpecShutdown and is left out here.      *)
(***************************************************************************)
MaxTeardownCalls == 2

\* SerenaAgent.shutdown returns or raises an Exception
AgentShutdownOutcomes == {"returns", "raises"}

TeardownThreads == Threads \cup {Caller}

TeardownIdle == [pc |-> "idle", sid |-> NoneStr, snapshot |-> <<>>, outcome |-> NoneStr]

\* with self._session_agents_lock
CanLockAgents_Unlocked(t) == TRUE

CanLockAgents(t) == srv.agentsLock = NoThread

\* except Exception as e: log.warning(...)  (lines 243-246, 441-445, 451-454)
Swallowed_Never(outcome) == FALSE

Swallowed(outcome) == outcome = "raises"

\* the agent's shutdown was invoked by this phase
Phase(kind, id, outcome) == [kind |-> kind, id |-> id, outcome |-> outcome]

\* how a try block around agent.shutdown ends
AfterTry(outcome, next) ==
    IF outcome = "returns" \/ Swallowed(outcome) THEN next ELSE "raised"

\* disconnect_session: get_session and the early return  (lines 235-237)
TeardownGet(t, session_id) ==
    /\ thr[t].pc = "idle"
    /\ sessOps.calls < MaxTeardownCalls
    /\ CanLockManager(t)
    /\ thr' = [thr EXCEPT ![t] =
                  IF GetSession(session_id) = NoneStr
                  THEN [TeardownIdle EXCEPT !.sid = session_id, !.outcome = "not_found"]
                  ELSE [TeardownIdle EXCEPT !.sid = session_id, !.pc = "lock"]]
    /\ sessOps' = [sessOps EXCEPT !.calls = @ + 1]
    /\ UNCHANGED <<now, sess, sessions, mgrLock, reaper, srv, sessHist>>
    /\ UNCHANGED <<regVars, bridge, dash>>

\* disconnect_session enters with self._session_agents_lock  (line 240)
TeardownLock(t) ==
    /\ thr[t].pc = "lock"
    /\ CanLockAgents(t)
    /\ srv' = [srv EXCEPT !.agentsLock = t]
    /\ thr' = [thr EXCEPT ![t].pc = "pop"]
    /\ UNCHANGED <<now, sess, sessions, mgrLock, reaper, sessOps, sessHist>>
    /\ UNCHANGED <<regVars, bridge, dash>>

\* the agent is popped and, if there was one, shut down; the lock is
\* released  (lines 241-246)
TeardownPop(t, outcome) ==
    /\ thr[t].pc = "pop"
    /\ LET had == thr[t].sid \in srv.agents IN
       /\ srv' = [srv EXCEPT !.agents = @ \ {thr[t].sid}, !.agentsLock = NoThread]
       /\ thr' = [thr EXCEPT ![t].pc = IF had THEN AfterTry(outcome, "mark") ELSE "mark"]
       /\ sessHist' = IF had
                      THEN [sessHist EXCEPT
                               !.shutdowns[thr[t].sid] = @ + 1,
                               !.escaped = @ \/ AfterTry(outcome, "mark") = "raised"]
                      ELSE sessHist
    /\ UNCHANGED <<now, sess, sessions, mgrLock, reaper, sessOps>>
    /\ UNCHANGED <<regVars, bridge, dash>>

\* self._session_manager.disconnect_session and the session_disconnected
\* event  (lines 248-254)
TeardownMark(t) ==
    /\ thr[t].pc = "mark"
    /\ CanLockManager(t)
    /\ IF GetSession(thr[t].sid) = NoneStr
       THEN sess' = sess
       ELSE /\ CanLockSession(sess[thr[t].sid], t)
            /\ sess' = [sess EXCEPT ![thr[t].sid] = Disconnect(@, now)]
    /\ srv' = [srv EXCEPT !.events = AddLifecycleEvent(@,
                  ServerEvent(now, "session_disconnected", thr[t].sid, <<>>))]
    /\ thr' = [thr EXCEPT ![t].pc = "idle", ![t].outcome = "disconnected"]
    /\ UNCHANGED <<now, sessions, mgrLock, reaper, sessOps, sessHist>>
    /\ UNCHANGED <<regVars, bridge, dash>>

\* shutdown: the server_shutdown event  (line 436)
ServerShutdownBegin ==
    /\ thr[Caller].pc = "idle"
    /\ srv' = [srv EXCEPT !.events = AddLifecycleEvent(@,
                  ServerEvent(now, "server_shutdown", NoneStr, <<>>))]
    /\ thr' = [thr EXCEPT ![Caller].pc = "lock"]
    /\ UNCHANGED <<now, sess, sessions, mgrLock, reaper, sessOps, sessHist>>
    /\ UNCHANGED <<regVars, bridge, dash>>

\* with self._session_agents_lock: list(self._session_agents.items())
\* (lines 439-440)
ServerShutdownLock ==
    /\ thr[Caller].pc = "lock"
    /\ CanLockAgents(Caller)
    /\ srv' = [srv EXCEPT !.agentsLock = Caller]
    /\ thr' = [thr EXCEPT ![Caller].pc = "agents",
                          ![Caller].snapshot =
                              SelectSeq(SessionIds, LAMBDA id : id \in srv.agents)]
    /\ sessHist' = [sessHist EXCEPT !.held = srv.agents]
    /\ UNCHANGED <<now, sess, sessions, mgrLock, reaper, sessOps>>
    /\ UNCHANGED <<regVars, bridge, dash>>

\* one iteration of the loop: agent.shutdown(timeout=timeout / 2) in its try
\* block  (lines 441-445)
ServerShutdownAgent(outcome) ==
    /\ thr[Caller].pc = "agents"
    /\ thr[Caller].snapshot # <<>>
    /\ LET id == Head(thr[Caller].snapshot)
           next == AfterTry(outcome, "agents") IN
       /\ thr' = [thr EXCEPT ![Caller].pc = next,
                             ![Caller].snapshot = Tail(@)]
       /\ srv' = IF next = "raised" THEN [srv EXCEPT !.agentsLock = NoThread] ELSE srv
       /\ sessHist' = [sessHist EXCEPT
                          !.shutdowns[id] = @ + 1,
                          !.phases = Append(@, Phase("context", id, outcome)),
                          !.escaped = @ \/ next = "raised"]
    /\ UNCHANGED <<now, sess, sessions, mgrLock, reaper, sessOps>>
    /\ UNCHANGED <<regVars, bridge, dash>>

\* self._session_agents.clear() and the end of the with block  (line 446)
ServerShutdownClear ==
    /\ thr[Caller].pc = "agents"
    /\ thr[Caller].snapshot = <<>>
    /\ srv' = [srv EXCEPT !.agents = {}, !.agentsLock = NoThread]
    /\ thr' = [thr EXCEPT ![Caller].pc = "manager"]
    /\ UNCHANGED <<now, sess, sessions, mgrLock, reaper, sessOps, sessHist>>
    /\ UNCHANGED <<regVars, bridge, dash>>

\* self._session_manager.shutdown(): every session is disconnected under the
\* manager's lock  (line 449; session.py, lines 387-394)
ServerShutdownManager ==
    /\ thr[Caller].pc = "manager"
    /\ CanLockManager(Caller)
    /\ sess' = [id \in DOMAIN sess |->
                   IF Contains(sessions, id) THEN Disconnect(sess[id], now) ELSE sess[id]]
    /\ thr' = [thr EXCEPT ![Caller].pc = "template"]
    /\ sessHist' = [sessHist EXCEPT
                       !.phases = Append(@, Phase("manager", NoneStr, "returns"))]
    /\ UNCHANGED <<now, sessions, mgrLock, reaper, srv, sessOps>>
    /\ UNCHANGED <<regVars, bridge, dash>>

\* self._template_agent.shutdown(timeout=timeout / 2) in its try block
\* (lines 452-455)
ServerShutdownTemplate(outcome) ==
    /\ thr[Caller].pc = "template"
    /\ thr' = [thr EXCEPT ![Caller].pc = AfterTry(outcome, "done")]
    /\ sessHist' = [sessHist EXCEPT
                       !.phases = Append(@, Phase("template", TemplateAgent, outcome)),
                       !.escaped = @ \/ AfterTry(outcome, "done") = "raised"]
    /\ UNCHANGED <<now, sess, sessions, mgrLock, reaper, srv, sessOps>>
    /\ UNCHANGED <<regVars, bridge, dash>>

\* a client connects while the server is up
TeardownCreate ==
    /\ thr[Caller].pc = "idle"
    /\ ServerCreateSession

\* CentralizedSerenaServer.__init__
InitTeardown ==
    /\ now = 1
    /\ NoRegistry
    /\ NoBridge
    /\ NoDashboard
    /\ sess = <<>>
    /\ sessions = <<>>
    /\ mgrLock = NoThread
    /\ thr = [t \in TeardownThreads |-> TeardownIdle]
    /\ reaper = <<>>
    /\ srv = [agents |-> {}, total_tool_calls |-> 0, total_sessions_created |-> 0,
              statsLock |-> NoThread, events |-> <<>>, agentsLock |-> NoThread]
    /\ sessOps = [calls |-> 0]
    /\ sessHist = [shutdowns |-> [id \in SessionIdSet |-> 0], phases |-> <<>>,
                   held |-> {}, escaped |-> FALSE]

NextTeardown ==
    \/ TeardownCreate
    \/ \E t \in Threads : \E id \in SessionIdSet : TeardownGet(t, id)
    \/ \E t \in Threads : TeardownLock(t)
    \/ \E t \in Threads : \E outcome \in AgentShutdownOutcomes : TeardownPop(t, outcome)
    \/ \E t \in Threads : TeardownMark(t)
    \/ ServerShutdownBegin
    \/ ServerShutdownLock
    \/ \E outcome \in AgentShutdownOutcomes : ServerShutdownAgent(outcome)
    \/ ServerShutdownClear
    \/ ServerShutdownManager
    \/ \E outcome \in AgentShutdownOutcomes : ServerShutdownTemplate(outcome)

\* every thread that has begun a call goes on running
SpecTeardown ==
    /\ InitTeardown
    /\ [][NextTeardown]_vars
    /\ \A t \in Threads :
          /\ WF_vars(TeardownLock(t))
          /\ WF_vars(\E outcome \in AgentShutdownOutcomes : TeardownPop(t, outcome))
    /\ WF_vars(ServerShutdownLock)
    /\ WF_vars(\E outcome \in AgentShutdownOutcomes : ServerShutdownAgent(outcome))
    /\ WF_vars(ServerShutdownClear)
    /\ WF_vars(ServerShutdownManager)
    /\ WF_vars(\E outcome \in AgentShutdownOutcomes : ServerShutdownTemplate(outcome))

ShutdownReturned == thr[Caller].pc = "done"

\* the phases run so far: contexts first, then the manager, then the template
PhaseKinds == [i \in 1..Len(sessHist.phases) |-> sessHist.phases[i].kind]

InPhaseOrder ==
    \A i, j \in 1..Len(PhaseKinds) :
        i < j => /\ PhaseKinds[i] = "manager" => PhaseKinds[j] = "template"
                 /\ PhaseKinds[i] # "template"

AllPhasesRun ==
    /\ {sessHist.phases[i].id : i \in {k \in 1..Len(PhaseKinds) : PhaseKinds[k] = "context"}}
           = sessHist.held
    /\ Len(sessHist.phases) = Cardinality(sessHist.held) + 2
    /\ PhaseKinds[Len(PhaseKinds) - 1] = "manager"
    /\ PhaseKinds[Len(PhaseKinds)] = "template"

\* C31: shutdown of the server shuts down every per-session context, then
\* the SessionManager, then the template context, in this order, whether or
\* not a context's shutdown raises; no exception escapes it, it returns, and
\* after it the map of contexts is empty and every session is DISCONNECTED.
C31_ShutdownBestEffort ==
    /\ [](InPhaseOrder /\ thr[Caller].pc # "raised")
    /\ [](ShutdownReturned =>
             /\ AllPhasesRun
             /\ srv.agents = {}
             /\ \A i \in 1..Len(sessions) : sess[sessions[i]].state = DISCONNECTED)
    /\ (thr[Caller].pc # "idle" ~> ShutdownReturned)

\* shutdown returned although a context's shutdown and the template's raised
C31_Witness ==
    /\ ShutdownReturned
    /\ Len(sessHist.phases) = 4
    /\ sessHist.phases[1].outcome = "raises"
    /\ sessHist.phases[2].outcome = "returns"
    /\ sessHist.phases[4].outcome = "raises"
    /\ Len(sessions) = 2

\* C38: the shutdown of a per-session context is invoked at most once,
\* however disconnect_session calls for the session and shutdown of the
\* server interleave.
C38_ContextShutdownOnce ==
    \A id \in SessionIdSet : sessHist.shutdowns[id] <= 1

\* two disconnect_session calls for s1 ran beside shutdown
C38_Witness ==
    /\ ShutdownReturned
    /\ \A t \in Threads : thr[t].sid = "s1" /\ thr[t].outcome = "disconnected"
    /\ sessHist.shutdowns["s1"] = 1
    /\ sessHist.shutdowns["s2"] = 1
    /\ sessHist.held = {"s2"}

(***************************************************************************)
(* The end of the bridge's run() (mcp_proxy.py, lines 139-152 and          *)
(* 319-363): the main thread leaves its try block through EOF, an          *)
(* exception or KeyboardInterrupt and calls disconnect(); the heartbeat    *)
(* thread runs its loop step by step beside it.  A thread that was started *)
(* but has not yet run behaves as one started later, so the thread's       *)
(* first step stands for its start.                                        *)
(***************************************************************************)
\* the lines read in this specification: one that makes the handler raise,
\* one served from the server, one served locally
EndLines ==
    {ArrayLine, Message(TRUE, "tools/call", "find_symbol"),
     Message(TRUE, "initialize", NoneStr)}

\* while not self._shutdown_event.is_set()  (line 321)
KeepsBeating_Always(shutdown) == TRUE

KeepsBeating(shutdown) == ~shutdown

\* the exception that leaves _make_request  (lines 99-106)
RaisedBy(outcome) == IF MakeRequest(outcome).raised THEN "MCPProxyError" ELSE NoneStr

\* except MCPProxyError as e: log.warning(...) in disconnect()  (lines 151-152)
CaughtByDisconnect(exc) == exc = "MCPProxyError"

DeleteRaises(outcome) ==
    RaisedBy(outcome) # NoneStr /\ ~CaughtByDisconnect(RaisedBy(outcome))

IsDelete(request) == request.method = "DELETE"

Deletes(b) == SelectSeq(b.sent, IsDelete)

HeartbeatAlive == dash.hb \in {"check", "request", "wait"}

\* KeyboardInterrupt in the main thread, in connect() or in the read loop:
\* except KeyboardInterrupt, then finally disconnect()  (lines 358-363)
BridgeInterrupt ==
    /\ bridge.pc \in {"restore", "create", "reading"}
    /\ bridge' = BridgeDisconnect(bridge)
    /\ dash' = [dash EXCEPT !.interrupted = TRUE]
    /\ UNCHANGED <<now, regVars, sessVars>>

\* the DELETE sent by disconnect() is answered or fails  (lines 145-152)
DeleteAnswered(outcome) ==
    /\ bridge.pc = "stopped"
    /\ Deletes(bridge) # <<>>
    /\ dash.delete = NoneStr
    /\ dash' = [dash EXCEPT !.delete = outcome,
                            !.raised = DeleteRaises(outcome)]
    /\ UNCHANGED <<now, regVars, sessVars, bridge>>

\* self._heartbeat_thread.start()  (lines 348-349)
HeartbeatStart ==
    /\ bridge.pc = "reading"
    /\ dash.hb = "not_started"
    /\ dash' = [dash EXCEPT !.hb = "check"]
    /\ UNCHANGED <<now, regVars, sessVars, bridge>>

\* the test of the while loop  (line 321)
HeartbeatCheck ==
    /\ dash.hb = "check"
    /\ bridge.shutdown \/ bridge.beats < MaxBeats
    /\ dash' = IF KeepsBeating(bridge.shutdown)
               THEN [dash EXCEPT !.hb = "request",
                                 !.beganAfterSet = @ \/ bridge.shutdown]
               ELSE [dash EXCEPT !.hb = "ended"]
    /\ UNCHANGED <<now, regVars, sessVars, bridge>>

\* POST /sessions/{sid}/heartbeat; an MCPProxyError is logged  (lines 322-329)
HeartbeatRequest(outcome) ==
    /\ dash.hb = "request"
    /\ bridge' = [bridge EXCEPT
           !.beats = @ + 1,
           !.sent = Append(@, Request("POST", <<"sessions", bridge.session_id, "heartbeat">>,
                                      bridge.session_id))]
    /\ dash' = [dash EXCEPT !.hb = "wait"]
    /\ UNCHANGED <<now, regVars, sessVars>>

\* self._shutdown_event.wait(self.HEARTBEAT_INTERVAL) returns  (line 330)
HeartbeatWake ==
    /\ dash.hb = "wait"
    /\ dash' = [dash EXCEPT !.hb = "check"]
    /\ UNCHANGED <<now, regVars, sessVars, bridge>>

InitBridgeEnd ==
    /\ now = 1
    /\ NoRegistry
    /\ NoServer
    /\ dash = [hb |-> "not_started", beganAfterSet |-> FALSE, delete |-> NoneStr,
               raised |-> FALSE, interrupted |-> FALSE]
    /\ \E supplied \in SuppliedIds : bridge = Bridge(supplied)

NextBridgeEnd ==
    \/ \E outcome \in HttpOutcomes :
          \/ ConnectRestore(outcome)
          \/ ConnectCreate(outcome)
          \/ \E line \in EndLines : BridgeLine(line, outcome)
          \/ DeleteAnswered(outcome)
          \/ HeartbeatRequest(outcome)
    \/ BridgeEof
    \/ BridgeInterrupt
    \/ HeartbeatStart
    \/ HeartbeatCheck
    \/ HeartbeatWake

\* the heartbeat thread keeps running, and the DELETE comes to an end
SpecBridgeEnd ==
    /\ InitBridgeEnd
    /\ [][NextBridgeEnd]_vars
    /\ WF_vars(HeartbeatCheck)
    /\ WF_vars(\E outcome \in HttpOutcomes : HeartbeatRequest(outcome))
    /\ WF_vars(HeartbeatWake)
    /\ WF_vars(\E outcome \in HttpOutcomes : DeleteAnswered(outcome))

RunEnded == bridge.pc = "stopped"

DeleteOnceIfHeld ==
    Len(Deletes(bridge)) = IF TruthyStr(bridge.session_id) THEN 1 ELSE 0

\* C32: when run() has ended, however it ended, the shutdown event is set
\* and DELETE /api/sessions/{sid} was sent exactly once if a session id is
\* held and not at all otherwise; a failing DELETE raises nothing; the
\* heartbeat thread begins no heartbeat after the event is set and ends.
C32_RunEndsCleanly ==
    /\ [](RunEnded => bridge.shutdown /\ DeleteOnceIfHeld)
    /\ [](~RunEnded => Deletes(bridge) = <<>>)
    /\ [](~dash.raised /\ ~dash.beganAfterSet)
    /\ (RunEnded ~> ~HeartbeatAlive)

\* run() was interrupted while the heartbeat thread was beating; the DELETE
\* failed and the thread has ended
C32_Witness ==
    /\ RunEnded
    /\ dash.interrupted
    /\ dash.delete = "connection_error"
    /\ Len(Deletes(bridge)) = 1
    /\ bridge.beats >= 1
    /\ dash.hb = "ended"

(***************************************************************************)
(* Further claims about the bridge's read loop                             *)
(***************************************************************************)
\* the methods answered to a request that has an id
ServedMethods ==
    {"initialize", "tools/list", "tools/call", "prompts/get", "prompts/list",
     "resources/list"}

\* the step reads a request with an id whose call to the server failed
ServesThroughFailure ==
    /\ bridge'.lines = bridge.lines + 1
    /\ bridge'.last.line.kind = "object"
    /\ bridge'.last.line.has_id
    /\ bridge'.last.line.method \in ServedMethods
    /\ bridge'.last.outcome \in TransportFailures

\* C40: a request with an id, of any of the six served methods, whose call
\* to the server fails in transport gets exactly one response, and the read
\* loop goes on.
C40_TransportFailureKeepsLoop ==
    [][ServesThroughFailure =>
           /\ Len(bridge'.last.wrote) = 1
           /\ ~bridge'.last.raised
           /\ bridge'.pc = "reading"]_vars

(***************************************************************************)
(* Further claims about run_in_thread_if_available                         *)
(***************************************************************************)
\* process p finds that the recorded port does not answer the probe
FindsStaleRecord(p) ==
    /\ dash.start[p].pc = "probe_existing"
    /\ dash'.start[p].pc = "bind"
    /\ ~IsSerenaGlobalDashboard(dash'.start[p].probed)
    /\ Load(file).global_dashboard_port # NoneNum

\* C33: when the recorded dashboard port does not answer the probe, the call
\* clears the record from the registry, whichever pid stored it, before it
\* goes on to choose a port.
C33_StaleRecordCleared ==
    [][\A p \in Procs :
          FindsStaleRecord(p) =>
              /\ Load(file').global_dashboard_port = NoneNum
              /\ Load(file').global_dashboard_pid = NoneNum]_vars

(***************************************************************************)
(* Claims about every registry document                                    *)
(***************************************************************************)
Instances == Load(file).instances

InstanceAt(i) == Instances[i].info

\* C34: in every registry document an instance's zombie_detected_at is set
\* if and only if its state is ZOMBIE.
C34_DetectedIffZombie ==
    \A i \in 1..Len(Instances) :
        InstanceAt(i).zombie_detected_at # NoneNum <=> InstanceAt(i).state = ZOMBIE

\* C35: in every registry document an instance that is not ZOMBIE is
\* LIVE_WITH_PROJECT if its project_name is non-empty and LIVE_NO_PROJECT
\* otherwise.
C35_StateFollowsProject ==
    \A i \in 1..Len(Instances) :
        InstanceAt(i).state # ZOMBIE =>
            InstanceAt(i).state = IF TruthyStr(InstanceAt(i).project_name)
                                  THEN LIVE_WITH_PROJECT ELSE LIVE_NO_PROJECT

(***************************************************************************)
(* get_lifecycle_events(limit) of the registry, of the central server and  *)
(* of the dashboard's route  (instance_registry.py, lines 407-411;         *)
(* central_server.py, lines 172-175; global_dashboard.py, lines 108-124)   *)
(***************************************************************************)
MaxLimit == 3
MaxEventCalls == 2
DefaultLimit == 100

EventLimits == 0..MaxLimit

\* s[start:] of a Python list
PySliceFrom(s, start) ==
    LET lo == IF start < 0
              THEN (IF Len(s) + start > 0 THEN Len(s) + start ELSE 0)
              ELSE Min(start, Len(s))
    IN SubSeq(s, lo + 1, Len(s))

\* events[-limit:]
GetLifecycleEvents(events, limit) == PySliceFrom(events, 0 - limit)

\* request.args.get("limit", 100, type=int)
LimitArg(arg) == IF arg = NoneNum THEN DefaultLimit ELSE arg

EventsCall(who, limit, events) ==
    /\ dash.calls < MaxEventCalls
    /\ dash' = [calls |-> dash.calls + 1,
                last |-> [who |-> who, limit |-> limit, had |-> events,
                          got |-> GetLifecycleEvents(events, limit)]]

RegistryGetEvents(limit) ==
    /\ EventsCall("registry", limit, Load(file).lifecycle_events)
    /\ UNCHANGED <<now, regVars, sessVars, bridge>>

ServerGetEvents(limit) ==
    /\ EventsCall("server", limit, srv.events)
    /\ UNCHANGED <<now, regVars, sessVars, bridge>>

RouteGetEvents(arg) ==
    /\ EventsCall("route", LimitArg(arg), Load(file).lifecycle_events)
    /\ UNCHANGED <<now, regVars, sessVars, bridge>>

NoEventsCall == [who |-> NoneStr, limit |-> NoneNum, had |-> <<>>, got |-> <<>>]

InitEvents ==
    /\ now = 2
    /\ file \in {JsonFile(Busy(n)) : n \in {0, 1, MaxLimit}}
    /\ tmpfile = AbsentFile
    /\ lockHolder = NoProc
    /\ rpc = [p \in Procs |-> "idle"]
    /\ rloc = [p \in Procs |-> Locals(NoOp)]
    /\ opsStarted = 0
    /\ serial = Load(file)
    /\ hist = NoHist
    /\ NoBridge
    /\ dash = [calls |-> 0, last |-> NoEventsCall]
    /\ sess = <<>>
    /\ sessions = <<>>
    /\ mgrLock = NoThread
    /\ thr = [t \in Threads |-> ExecIdle]
    /\ reaper = <<>>
    /\ \E n \in {0, MaxLimit} :
          srv = [agents |-> {}, total_tool_calls |-> n, total_sessions_created |-> 0,
                 statsLock |-> NoThread,
                 events |-> <<ServerEvent(1, "server_started", NoneStr, <<>>)>> \o BusyLog(n)]
    /\ sessOps = [calls |-> 0, ops |-> 0]
    /\ sessHist = [served |-> [id \in SessionIdSet |-> [n \in ToolNames |-> 0]]]

NextEvents ==
    \/ \E limit \in EventLimits : RegistryGetEvents(limit)
    \/ \E limit \in EventLimits : ServerGetEvents(limit)
    \/ \E arg \in EventLimits \cup {NoneNum} : RouteGetEvents(arg)
    \/ \E pid \in Pids : CallRegister(pid, RegA, now)
    \/ ServerCreateSession

SpecEvents == InitEvents /\ [][NextEvents]_vars

\* C39: get_lifecycle_events(limit) returns at most limit events, for every
\* limit >= 0, and they are the newest ones, in the order they were appended.
C39_AtMostLimitNewest ==
    dash.last.who # NoneStr =>
        /\ Len(dash.last.got) <= dash.last.limit
        /\ dash.last.got = LastN(dash.last.had, dash.last.limit)

(***************************************************************************)
(* Claims about sessions that are DISCONNECTED                             *)
(***************************************************************************)
\* the increments of total_tool_calls made by calls for this session
StatsFor(id, threads) ==
    Cardinality({t \in Threads : threads[t].sid = id /\ threads[t].did.stats_inc = 1})

\* nothing is counted for the session and no tool runs for it in this step
QuietStep(id) ==
    /\ sess'[id].tool_call_count = sess[id].tool_call_count
    /\ sess'[id].tool_stats = sess[id].tool_stats
    /\ sess'[id].last_activity = sess[id].last_activity
    /\ sessHist'.served[id] = sessHist.served[id]
    /\ \A t \in Threads :
          (thr[t].sid = id /\ thr'[t].sid = id) =>
              thr'[t].did.stats_inc = thr[t].did.stats_inc

\* C37: once a session is DISCONNECTED, however execute_tool and
\* disconnect_session interleave, its tool-call counters, the server's
\* total_tool_calls counted for it and its last_activity no longer change
\* and no tool is invoked for it.
C37_DisconnectedIsQuiet ==
    [][\A id \in DOMAIN sess : sess[id].state = DISCONNECTED => QuietStep(id)]_vars


(***************************************************************************)
(* activate_project_for_session beside disconnect_session                  *)
(* (central_server.py, lines 319-354)                                      *)
(***************************************************************************)
MaxActivations == 2

\* session = self._session_manager.get_session(session_id); ValueError if
\* there is none  (lines 333-335)
ActivateGetSession(t, session_id) ==
    /\ thr[t].pc = "idle"
    /\ sessOps.calls < MaxActivations
    /\ CanLockManager(t)
    /\ LET call == [ExecIdle EXCEPT !.sid = session_id, !.tool = "activate_project"] IN
       thr' = [thr EXCEPT ![t] =
                  IF GetSession(session_id) = NoneStr
                  THEN [call EXCEPT !.outcome = "ValueError"]
                  ELSE [call EXCEPT !.pc = "activate_agent", !.session = session_id]]
    /\ sessOps' = [sessOps EXCEPT !.calls = @ + 1]
    /\ UNCHANGED <<now, sess, sessions, mgrLock, reaper, srv, sessHist>>
    /\ UNCHANGED <<regVars, bridge, dash>>

\* agent = self.get_session_agent(session_id); ValueError if there is none
\* (lines 337-339)
ActivateGetAgent(t) ==
    /\ thr[t].pc = "activate_agent"
    /\ thr' = [thr EXCEPT ![t] =
                  IF thr[t].sid \in srv.agents
                  THEN [@ EXCEPT !.pc = "activate_project", !.agent = thr[t].sid]
                  ELSE [@ EXCEPT !.pc = "idle", !.outcome = "ValueError"]]
    /\ UNCHANGED <<now, sess, sessions, mgrLock, reaper, srv, sessOps, sessHist>>
    /\ UNCHANGED <<regVars, bridge, dash>>

\* project = agent.activate_project_from_path_or_name(...), which raises
\* ProjectNotFoundError for an unknown project; session.set_active_project
\* and the project_activated event  (lines 342-353)
ActivateSetProject(t, found) ==
    /\ thr[t].pc = "activate_project"
    /\ IF found
       THEN /\ CanLockSession(sess[thr[t].session], t)
            /\ sess' = [sess EXCEPT ![thr[t].session] = SetActiveProject(@, "projA", now)]
            /\ srv' = [srv EXCEPT !.events = AddLifecycleEvent(@,
                          ServerEvent(now, "project_activated", thr[t].sid,
                                      [project_name |-> "projA"]))]
            /\ thr' = [thr EXCEPT ![t].pc = "idle", ![t].outcome = "returns"]
       ELSE /\ thr' = [thr EXCEPT ![t].pc = "idle", ![t].outcome = "ProjectNotFoundError"]
            /\ UNCHANGED <<sess, srv>>
    /\ UNCHANGED <<now, sessions, mgrLock, reaper, sessOps, sessHist>>
    /\ UNCHANGED <<regVars, bridge, dash>>

NextActivate ==
    \/ \E t \in Threads : \E id \in SessionIdSet : ActivateGetSession(t, id)
    \/ \E t \in Threads : ActivateGetAgent(t)
    \/ \E t \in Threads : \E found \in BOOLEAN : ActivateSetProject(t, found)
    \/ ServerCreateSession
    \/ \E id \in SessionIdSet : ServerDisconnectSession(id)

SpecActivate == InitServer /\ [][NextActivate]_vars

\* C36: once a session's stored state is DISCONNECTED no operation of the
\* session, the manager or the server brings it back to CONNECTED or ACTIVE.
C36_DisconnectedAbsorbing ==
    [][\A id \in DOMAIN sess :
          sess[id].state = DISCONNECTED => sess'[id].state = DISCONNECTED]_vars

====
